---------------------------- MODULE Spec2Model ----------------------------
(***************************************************************************)
(* A model of the asteroid-prospector engine core (engine_core/src/        *)
(* abp_core.c, abp_rng.c) and of the trace harness loop                     *)
(* (engine_core/core_test_runner.c).                                        *)
(*                                                                         *)
(* Numbers.  Every C float is a fixed-point integer in hundredths: 1.0f is *)
(* 100, ABP_FUEL_MAX (1000.0f) is 100000, a probability p is 100*p.        *)
(* Products of two such values are divided by 100 (MulQ).  The libm        *)
(* functions (logf, expf, sinf, cosf, sqrtf, powf, log1pf) are integer      *)
(* approximations of the same functions at that resolution.                *)
(*                                                                         *)
(* Generator.  abp_pcg32_next is the 64/32-bit PCG XSH-RR step; the model   *)
(* keeps its structure (LCG step, xorshift, rotate by the top bits) at the  *)
(* 16/8-bit member of the same family so that the state fits TLC's          *)
(* integers.  A draw is therefore a deterministic function of the           *)
(* generator state, as in the code.                                         *)
(*                                                                         *)
(* Capacities.  The world capacities (ABP_MAX_NODES 32, ABP_MAX_NEIGHBORS  *)
(* 6, ABP_MAX_ASTEROIDS 16) and the generator's lower limits (8 nodes,      *)
(* 5 asteroids) are scaled down to MaxNodes, MaxNeighbors, MaxAsteroids,    *)
(* MinNodes, MinAsteroids.  A slot index at or above the scaled capacity    *)
(* reads as an empty slot (-1 neighbor, invalid asteroid), which is what    *)
(* the code reads for every slot a node does not use.  Action codes are     *)
(* the code's own (0..68, everything above is out of range).                *)
(*                                                                         *)
(* Locals.  Only({e : x \in {v}}) is e with the local x holding v, the     *)
(* way a C local holds a value computed once.                              *)
(***************************************************************************)
EXTENDS Integers, Sequences, FiniteSets, TLC

(***************************************************************************)
(* Bounds of the model.                                                    *)
(***************************************************************************)
MaxNodes == 4
MinNodes == 3
MaxNeighbors == 2
MaxAsteroids == 2
MinAsteroids == 1
MaxSeed == 1
MaxSteps == 2

MaxWarm == 12
MaxGenSeed == 16
MaxBurns == 60
MaxHolds == 700
MaxRecords == 4
MantissaBits == 16

(***************************************************************************)
(* Program constants (floats in hundredths).                               *)
(***************************************************************************)
ABP_N_COMMODITIES == 6
ABP_NODE_STATION == 0
ABP_NODE_CLUSTER == 1
ABP_NODE_HAZARD == 2
ABP_N_ACTIONS == 69
ABP_FUEL_MAX == 100000
ABP_HULL_MAX == 10000
ABP_HEAT_MAX == 10000
ABP_TOOL_MAX == 10000
ABP_CARGO_MAX == 20000
ABP_ALERT_MAX == 10000
ABP_TIME_MAX == 2000000
ABP_CREDIT_SCALE == 100000

Nodes == 0 .. (MaxNodes - 1)
Slots == 0 .. (MaxNeighbors - 1)
Asteroids == 0 .. (MaxAsteroids - 1)
Commodities == 0 .. (ABP_N_COMMODITIES - 1)

(***************************************************************************)
(* Fixed-point arithmetic and the libm functions.                          *)
(***************************************************************************)
MulQ(a, b) == (a * b) \div 100

DivQ(a, b) == (a * 100) \div b

fmaxf(a, b) == IF a > b THEN a ELSE b

fminf(a, b) == IF a < b THEN a ELSE b

abp_clampf(value, low, high) ==
    IF value < low THEN low ELSE IF value > high THEN high ELSE value

\* The element of a one-element set.
Only(S) == CHOOSE x \in S : TRUE

\* The spacing, in whole units, of the floats around x hundredths, from u up:
\* 1 below 2^MantissaBits, 2 up to twice that, and so on.  The code's floats
\* have 24 mantissa bits, the model's MantissaBits.
RECURSIVE Ulp(_, _)
Ulp(x, u) == IF x < (2 ^ MantissaBits) * 100 * u THEN u ELSE Ulp(x, 2 * u)

\* The float a result of x hundredths is rounded to: x itself below
\* 2^MantissaBits, else the nearest multiple of the spacing, a tie going to
\* the even multiple.
RoundFloat(x) ==
    IF Ulp(x, 1) = 1 THEN x
    ELSE Only({IF 2 * (x % s) < s THEN (x \div s) * s
               ELSE IF 2 * (x % s) > s THEN ((x \div s) + 1) * s
               ELSE IF (x \div s) % 2 = 0 THEN (x \div s) * s
               ELSE ((x \div s) + 1) * s
                 : s \in {100 * Ulp(x, 1)}})

\* The value v, written out.  TLC keeps a function constructor unevaluated
\* until the function is compared; the comparison makes it evaluate the arrays
\* of v here, at the point where the program stores them, instead of carrying
\* the pending computations from step to step.
Stored(v) == IF v = v THEN v ELSE v

\* The integer square root of n < 215^4, found digit by digit in base 215.
SqrtCoarse(n) ==
    CHOOSE a \in 0 .. 214 :
       (215 * a) * (215 * a) <= n /\ (215 * (a + 1)) * (215 * (a + 1)) > n

ISqrt(n) ==
    CHOOSE r \in (215 * SqrtCoarse(n)) .. (215 * SqrtCoarse(n) + 214) :
       r * r <= n /\ (r + 1) * (r + 1) > n

\* sqrtf(x): x and the result in hundredths.
sqrtf(x) == IF x <= 0 THEN 0 ELSE ISqrt(x * 100)

\* 2 * atanh-series of logf on [1,2): t is (z-1)/(z+1) in hundredths.
LogSeries(t) == 2 * (t + ((t * t * t) \div 30000))

\* The binary exponent of z: z / 2^e lies in [1,2) when z >= 1 ...
LogHalvings(z) == CHOOSE e \in 0 .. 24 : (z \div (2 ^ e)) \in 100 .. 199

\* ... and z * 2^e lies in [1,2) when z < 1.
LogDoublings(z) == CHOOSE e \in 1 .. 7 : (z * (2 ^ e)) \in 100 .. 199

\* logf of a z in [1,2).
LogMantissa(z) == LogSeries(((z - 100) * 100) \div (100 + z))

\* logf(z): z > 0 in hundredths, result in hundredths.
logf(z) ==
    IF z >= 100 THEN 69 * LogHalvings(z) + LogMantissa(z \div (2 ^ LogHalvings(z)))
    ELSE LogMantissa(z * (2 ^ LogDoublings(z))) - 69 * LogDoublings(z)

log1pf(y) == logf(100 + y)

\* expf(x) from h = expf(x/2).
ExpSquare(h, x) ==
    IF h > 40000 THEN (h \div 100) * h
    ELSE MulQ(MulQ(h, h), IF x % 2 = 1 THEN 101 ELSE 100)

\* expf(x): x in hundredths, result in hundredths.
RECURSIVE expf(_)
expf(x) ==
    IF x > 1400 THEN expf(1400)
    ELSE IF x < -1400 THEN 0
    ELSE IF x > 50 \/ x < -50 THEN ExpSquare(expf(x \div 2), x)
    ELSE 100 + x + ((x * x) \div 200) + ((x * x * x) \div 60000)

\* Bhaskara's approximation of the sine of half a turn, h in 0..100.
SinHalf(h) == (1600 * (h * (100 - h))) \div (50000 - 4 * (h * (100 - h)))

\* sinf of an angle given in hundredths of a turn.
SinTurn(t) ==
    IF t % 100 < 50 THEN SinHalf(2 * (t % 100)) ELSE 0 - SinHalf(2 * ((t % 100) - 50))

\* sinf / cosf of an angle in hundredths of a radian (2*pi is 628).
sinf(x) == SinTurn(((x % 628) * 100) \div 628)

cosf(x) == SinTurn((((x % 628) * 100) \div 628) + 25)

RECURSIVE powf(_, _)
powf(b, n) == IF n <= 0 THEN 100 ELSE MulQ(b, powf(b, n - 1))

abp_sigmoid(x) ==
    IF x > 900 THEN 100 ELSE IF x < -900 THEN 0 ELSE DivQ(100, 100 + expf(0 - x))

(***************************************************************************)
(* abp_rng.c and the sampling helpers of abp_core.c.  A draw is a record   *)
(* [v |-> the value drawn, rng |-> the generator afterwards].              *)
(***************************************************************************)
\* Bit k of a ^ b, in place.
XorBit(a, b, k) == (((a \div (2 ^ k)) + (b \div (2 ^ k))) % 2) * (2 ^ k)

\* Bits k .. k+3 of a ^ b, in place.
XorNibble(a, b, k) ==
    (XorBit(a, b, k) + XorBit(a, b, k + 1)) + (XorBit(a, b, k + 2) + XorBit(a, b, k + 3))

\* a ^ b on the width of the generator state.
XorBits(a, b) ==
    (XorNibble(a, b, 0) + XorNibble(a, b, 4)) + (XorNibble(a, b, 8) + XorNibble(a, b, 12))

Rotr8(x, r) == ((x \div (2 ^ r)) + (x % (2 ^ r)) * (2 ^ (8 - r))) % 256

\* One generator step on the state oldstate.
Pcg32Step(rng, oldstate) ==
    [rng |-> [rng EXCEPT !.state = (oldstate * 12829 + rng.inc) % 65536],
     v |-> Rotr8((XorBits(oldstate \div 32, oldstate) \div 32) % 256, oldstate \div 8192)]

abp_pcg32_next(rng) == Pcg32Step(rng, rng.state)

\* state += seed, between the two steps of abp_rng_seed.
SeedAdd(rng, seed) == [rng EXCEPT !.state = (@ + seed) % 65536]

abp_rng_seed(seed, stream) ==
    abp_pcg32_next(
       SeedAdd(abp_pcg32_next([state |-> 0, inc |-> (2 * stream + 1) % 65536]).rng,
               seed)).rng

abp_rng_next_u32(rng) == abp_pcg32_next(rng)

\* A float in [0,1): the output over its range, in hundredths.
abp_rng_next_f32(rng) ==
    LET d == abp_rng_next_u32(rng)
    IN  [rng |-> d.rng, v |-> (d.v * 100) \div 256]

abp_rng_u32_range(rng, low, high_exclusive) ==
    IF high_exclusive <= low THEN [v |-> low, rng |-> rng]
    ELSE LET d == abp_rng_next_u32(rng)
         IN  [rng |-> d.rng, v |-> low + (d.v % (high_exclusive - low))]

abp_rng_uniform(rng, low, high) ==
    LET d == abp_rng_next_f32(rng)
    IN  [rng |-> d.rng, v |-> low + MulQ(high - low, d.v)]

\* -logf(u), u floored at the smallest positive value of the resolution.
abp_rng_exp_unit(rng) ==
    LET d == abp_rng_next_f32(rng)
    IN  [rng |-> d.rng, v |-> 0 - logf(fmaxf(d.v, 1))]

\* Box-Muller, cosine branch only, from the two draws u1 and u2.
BoxMuller(u1, u2) == MulQ(sqrtf(0 - 2 * logf(fmaxf(u1, 1))), cosf(MulQ(628, u2)))

abp_rng_normal(rng, mean, sigma) ==
    LET d1 == abp_rng_next_f32(rng)
        d2 == abp_rng_next_f32(d1.rng)
    IN  [rng |-> d2.rng, v |-> mean + MulQ(sigma, BoxMuller(d1.v, d2.v))]

abp_rng_lognormal(rng, mean, sigma) ==
    LET d == abp_rng_normal(rng, mean, sigma)
    IN  [rng |-> d.rng, v |-> expf(d.v)]

\* A tuple of draws grown by one: acc is [v |-> the tuple, rng |-> ...].
AppendDraw(acc, d) == [v |-> Append(acc.v, d.v), rng |-> d.rng]

\* Unit exponentials appended to acc until it holds n draws.
RECURSIVE ExpUnits(_, _)
ExpUnits(acc, n) ==
    IF Len(acc.v) >= n THEN acc
    ELSE ExpUnits(AppendDraw(acc, abp_rng_exp_unit(acc.rng)), n)

RECURSIVE SumSeq(_)
SumSeq(q) == IF q = << >> THEN 0 ELSE Head(q) + SumSeq(Tail(q))

\* a / (a + b), or 0.5 when the total is not positive.
BetaRatio(a, total) == IF total <= 0 THEN 50 ELSE DivQ(a, total)

abp_rng_beta_3_2(rng) ==
    LET da == ExpUnits([v |-> << >>, rng |-> rng], 3)
        db == ExpUnits([v |-> << >>, rng |-> da.rng], 2)
    IN  [rng |-> db.rng, v |-> BetaRatio(SumSeq(da.v), SumSeq(da.v) + SumSeq(db.v))]

\* out[i] /= sum, or the flat composition when the sum is not positive.
DirichletShares(out, sum) ==
    [c \in Commodities |->
       IF sum <= 0 THEN 100 \div ABP_N_COMMODITIES ELSE DivQ(out[c + 1], sum)]

\* A flat Dirichlet draw: a function Commodities -> hundredths.
abp_rng_dirichlet_ones(rng) ==
    LET d == ExpUnits([v |-> << >>, rng |-> rng], ABP_N_COMMODITIES)
    IN  [rng |-> d.rng, v |-> DirichletShares(d.v, SumSeq(d.v))]

SumComm(f) == f[0] + f[1] + f[2] + f[3] + f[4] + f[5]

\* in[] with every component floored at the smallest positive value.
FlooredProbs(in) == [c \in Commodities |-> IF in[c] < 1 THEN 1 ELSE in[c]]

\* fl[] divided by its sum.
SharesOf(fl, sum) ==
    [c \in Commodities |-> IF sum <= 0 THEN 100 \div ABP_N_COMMODITIES ELSE DivQ(fl[c], sum)]

\* in[] as it is.
KeepProbs(in) == in

abp_normalize_probs(in) == SharesOf(FlooredProbs(in), SumComm(FlooredProbs(in)))

(***************************************************************************)
(* World generation (abp_core.c).  The world under construction is a       *)
(* record w of the AbpCoreState fields the generator writes, with the      *)
(* generator in w.rng.                                                     *)
(***************************************************************************)
abp_edge_exists(w, u, v) == \E slot \in Slots : w.neighbors[u][slot] = v

abp_first_free_slot(w, node) ==
    IF \E slot \in Slots : w.neighbors[node][slot] < 0
    THEN CHOOSE slot \in Slots :
            /\ w.neighbors[node][slot] < 0
            /\ \A t \in Slots : t < slot => w.neighbors[node][t] >= 0
    ELSE -1

\* The edge stored at u only, with no way back from v.
AddEdgeOneWay(w, u, v, u_slot, v_slot) ==
    LET dt == abp_rng_u32_range(w.rng, 1, 8 + 1)
        df == abp_rng_uniform(dt.rng, 2000, 11200)
    IN  [w EXCEPT
           !.neighbors = [@ EXCEPT ![u][u_slot] = v],
           !.edge_travel_time = [@ EXCEPT ![u][u_slot] = dt.v],
           !.edge_fuel_cost = [@ EXCEPT ![u][u_slot] = df.v],
           !.rng = df.rng]

\* The edge u - v with its freshly drawn attributes, both directions.
AddEdgeStore(w, u, v, u_slot, v_slot) ==
    LET dt == abp_rng_u32_range(w.rng, 1, 8 + 1)
        df == abp_rng_uniform(dt.rng, 2000, 11200)
        dn == abp_rng_normal(df.rng, 0, 5)
        threat == abp_clampf(MulQ(50, w.node_hazard[u] + w.node_hazard[v])
                               + MulQ(50, w.node_pirate[u] + w.node_pirate[v]) + dn.v,
                             0, 100)
    IN  [w EXCEPT
           !.neighbors = [@ EXCEPT ![u][u_slot] = v, ![v][v_slot] = u],
           !.edge_travel_time = [@ EXCEPT ![u][u_slot] = dt.v, ![v][v_slot] = dt.v],
           !.edge_fuel_cost = [@ EXCEPT ![u][u_slot] = df.v, ![v][v_slot] = df.v],
           !.edge_threat_true = [@ EXCEPT ![u][u_slot] = threat, ![v][v_slot] = threat],
           !.edge_threat_est = [@ EXCEPT ![u][u_slot] = 50, ![v][v_slot] = 50],
           !.rng = dn.rng]

\* The edge between the free slots found, or nothing when a side is full.
AddEdgeAt(w, u, v, u_slot, v_slot) ==
    IF u_slot < 0 \/ v_slot < 0 THEN w ELSE AddEdgeStore(w, u, v, u_slot, v_slot)

abp_add_edge(w, u, v) ==
    IF u >= w.node_count \/ v >= w.node_count THEN w
    ELSE IF abp_edge_exists(w, u, v) THEN w
    ELSE AddEdgeAt(w, u, v, abp_first_free_slot(w, u), abp_first_free_slot(w, v))

\* Type and levels of one node, from three draws.
GenNodeLevel(w, node) ==
    LET dty == abp_rng_next_f32(w.rng)
        dh == abp_rng_uniform(dty.rng, 5, 35)
        dp == abp_rng_uniform(dh.rng, 5, 30)
    IN  [w EXCEPT
           !.node_type[node] = IF dty.v < 25 THEN ABP_NODE_HAZARD ELSE ABP_NODE_CLUSTER,
           !.node_hazard[node] = IF dty.v < 25 THEN dh.v + 25 ELSE dh.v,
           !.node_pirate[node] = IF dty.v < 25 THEN dp.v + 12 ELSE dp.v,
           !.rng = dp.rng]

\* Node types and levels, nodes node .. node_count-1.
RECURSIVE GenNodeLevels(_, _)
GenNodeLevels(w, node) ==
    IF node >= w.node_count THEN w
    ELSE GenNodeLevels(GenNodeLevel(w, node), node + 1)

\* One node of the spanning tree: its parent is drawn among the earlier nodes.
GenTreeEdge(w, node) ==
    LET dpar == abp_rng_u32_range(w.rng, 0, node)
    IN  abp_add_edge([w EXCEPT !.rng = dpar.rng], node, dpar.v)

RECURSIVE GenSpanningTree(_, _)
GenSpanningTree(w, node) ==
    IF node >= w.node_count THEN w
    ELSE GenSpanningTree(GenTreeEdge(w, node), node + 1)

\* One further random edge; a self-loop is skipped after its two draws.
GenExtraEdge(w) ==
    LET du == abp_rng_u32_range(w.rng, 0, w.node_count)
        dv == abp_rng_u32_range(du.rng, 0, w.node_count)
    IN  IF du.v = dv.v THEN [w EXCEPT !.rng = dv.rng]
        ELSE abp_add_edge([w EXCEPT !.rng = dv.rng], du.v, dv.v)

\* node_count further random edges.
RECURSIVE GenExtraEdges(_, _)
GenExtraEdges(w, node) ==
    IF node >= w.node_count THEN w
    ELSE GenExtraEdges(GenExtraEdge(w), node + 1)

\* abp_recompute_steps_to_station: the FIFO search from node 0.  b.dist is the
\* array so far, b.visited the marked nodes, b.queue the nodes still to expand.
RECURSIVE BfsVisit(_, _, _, _)
BfsVisit(w, cur, slot, b) ==
    IF slot >= MaxNeighbors THEN b
    ELSE LET neighbor == w.neighbors[cur][slot]
         IN  IF neighbor < 0 \/ neighbor >= w.node_count \/ neighbor \in b.visited
             THEN BfsVisit(w, cur, slot + 1, b)
             ELSE BfsVisit(w, cur, slot + 1,
                           [dist |-> [b.dist EXCEPT ![neighbor] =
                                        IF b.dist[cur] < MaxNodes - 1 THEN b.dist[cur] + 1
                                        ELSE MaxNodes - 1],
                            visited |-> b.visited \cup {neighbor},
                            queue |-> Append(b.queue, neighbor)])

RECURSIVE BfsLoop(_, _)
BfsLoop(w, b) ==
    IF b.queue = << >> THEN b.dist
    ELSE Only({BfsLoop(w, b1)
                 : b1 \in {BfsVisit(w, Head(b.queue), 0, [b EXCEPT !.queue = Tail(@)])}})

\* An index that holds the saturation value for every node.
StepsAllSaturated(w) == [n \in Nodes |-> MaxNodes - 1]

abp_recompute_steps_to_station(w) ==
    IF w.node_count = 0 THEN [n \in Nodes |-> MaxNodes - 1]
    ELSE BfsLoop(w, [dist |-> [n \in Nodes |-> IF n = 0 THEN 0 ELSE MaxNodes - 1],
                     visited |-> {0}, queue |-> <<0>>])

\* One asteroid, drawn in the order of the loop body of abp_generate_asteroids:
\* [v |-> the slot's fields, rng |-> the generator after the draws].
GenAsteroid(rng) ==
    LET dir == abp_rng_dirichlet_ones(rng)
        drich == abp_rng_lognormal(dir.rng, -20, 65)
        dstab == abp_rng_beta_3_2(drich.rng)
        dnoise == abp_rng_uniform(dstab.rng, 4, 22)
        dir_est == abp_rng_dirichlet_ones(dnoise.rng)
    IN  [v |-> [valid |-> 1, true_comp |-> dir.v,
                richness |-> abp_clampf(drich.v, 20, 400),
                stability_true |-> dstab.v, noise_profile |-> dnoise.v,
                comp_est |-> dir_est.v,
                stability_est |-> 50, scan_conf |-> 10, depletion |-> 0],
         rng |-> dir_est.rng]

NoAsteroid ==
    [valid |-> 0, true_comp |-> [c \in Commodities |-> 0], richness |-> 0,
     stability_true |-> 0, noise_profile |-> 0, comp_est |-> [c \in Commodities |-> 0],
     stability_est |-> 0, scan_conf |-> 0, depletion |-> 0]

\* The asteroids of one node appended to acc until it holds n_ast of them.
RECURSIVE GenNodeAsteroids(_, _)
GenNodeAsteroids(acc, n_ast) ==
    IF Len(acc.v) >= n_ast THEN acc
    ELSE GenNodeAsteroids(AppendDraw(acc, GenAsteroid(acc.rng)), n_ast)

\* Asteroids drawn for every node, the station included.
AsteroidsAtEveryNode(w, rng, node) ==
    LET dn == abp_rng_u32_range(rng, MinAsteroids, MaxAsteroids + 1)
    IN  GenNodeAsteroids([v |-> << >>, rng |-> dn.rng], dn.v)

\* The asteroids of node: none at a station, else a drawn number of them.
GenAsteroidNode(w, rng, node) ==
    IF w.node_type[node] = ABP_NODE_STATION THEN [v |-> << >>, rng |-> rng]
    ELSE LET dn == abp_rng_u32_range(rng, MinAsteroids, MaxAsteroids + 1)
         IN  GenNodeAsteroids([v |-> << >>, rng |-> dn.rng], dn.v)

\* One tuple of asteroids per node appended to acc, for the nodes from
\* Len(acc.v) to node_count-1.
RECURSIVE GenAsteroidNodes(_, _)
GenAsteroidNodes(w, acc) ==
    IF Len(acc.v) >= w.node_count THEN acc
    ELSE GenAsteroidNodes(w, AppendDraw(acc, GenAsteroidNode(w, acc.rng, Len(acc.v))))

\* abp_generate_asteroids: table[node][a_idx] is the record of that slot (the
\* arrays of the code, slot by slot); every slot not drawn is zero.
AsteroidTable(g) ==
    [rng |-> g.rng,
     table |-> [n \in Nodes |-> [a \in Asteroids |->
                  IF n < Len(g.v) /\ a < Len(g.v[n + 1])
                  THEN g.v[n + 1][a + 1] ELSE NoAsteroid]]]

abp_generate_asteroids(w) ==
    AsteroidTable(GenAsteroidNodes(w, [v |-> << >>, rng |-> w.rng]))

k_price_base == <<4500, 5500, 8500, 14500, 21000, 12000>>

k_price_min == <<1200, 1500, 2000, 5000, 8000, 3000>>

k_price_max == <<18000, 20000, 24000, 32000, 42000, 30000>>

GenCommodity(rng, c_idx) ==
    LET dinv == abp_rng_uniform(rng, 2000, 12000)
        dphase == abp_rng_uniform(dinv.rng, 0, 628)
        dperiod == abp_rng_uniform(dphase.rng, 18000, 38000)
        damp == abp_rng_uniform(dperiod.rng, 10, 30)
        amp == MulQ(k_price_base[c_idx + 1], damp.v)
    IN  [v |-> [station_inventory |-> dinv.v, price_phase |-> dphase.v,
                price_period |-> dperiod.v, price_amp |-> amp,
                market_price |->
                   abp_clampf(k_price_base[c_idx + 1] + MulQ(amp, sinf(dphase.v)),
                              k_price_min[c_idx + 1], k_price_max[c_idx + 1])],
         rng |-> damp.rng]

\* One commodity per entry appended to acc, for the commodities from Len(acc.v) on.
RECURSIVE GenCommodities(_)
GenCommodities(acc) ==
    IF Len(acc.v) >= ABP_N_COMMODITIES THEN acc
    ELSE GenCommodities(AppendDraw(acc, GenCommodity(acc.rng, Len(acc.v))))

abp_generate_market(rng) == GenCommodities([v |-> << >>, rng |-> rng])

\* The world before generation: node 0 the station, no edges.
EmptyWorld(dcount) ==
    [rng |-> dcount.rng,
     node_count |-> dcount.v,
     node_type |-> [n \in Nodes |-> IF n = 0 THEN ABP_NODE_STATION ELSE ABP_NODE_CLUSTER],
     node_hazard |-> [n \in Nodes |-> 0],
     node_pirate |-> [n \in Nodes |-> 0],
     neighbors |-> [n \in Nodes |-> [t \in Slots |-> -1]],
     edge_travel_time |-> [n \in Nodes |-> [t \in Slots |-> 1]],
     edge_fuel_cost |-> [n \in Nodes |-> [t \in Slots |-> 0]],
     edge_threat_true |-> [n \in Nodes |-> [t \in Slots |-> 0]],
     edge_threat_est |-> [n \in Nodes |-> [t \in Slots |-> 50]]]

\* abp_generate_world up to the reachability index: the graph.
GenGraph(rng) ==
    GenExtraEdges(
       GenSpanningTree(
          GenNodeLevels(EmptyWorld(abp_rng_u32_range(rng, MinNodes, MaxNodes + 1)), 1),
          1),
       0)

(***************************************************************************)
(* Accessors.  A neighbor or asteroid slot at or above the scaled capacity *)
(* is an unused slot of the code's arrays.                                 *)
(***************************************************************************)
NeighborAt(s, node, slot) == IF slot \in Slots THEN s.neighbors[node][slot] ELSE -1

AstValidAt(s, node, a_idx) == IF a_idx \in Asteroids THEN s.ast_valid[node][a_idx] ELSE 0

abp_cargo_sum(s) == SumComm(s.cargo)

\* A station test that no node passes.
StationNowhere(s) == FALSE

\* A station test that every node passes.
StationEverywhere(s) == TRUE

abp_is_at_station(s) == s.node_type[s.current_node] = ABP_NODE_STATION

\* A selection test that does not look at the depletion.
SelectionIgnoringDepletion(s) ==
    /\ s.selected_asteroid >= 0
    /\ s.selected_asteroid < 16
    /\ AstValidAt(s, s.current_node, s.selected_asteroid) # 0

abp_selected_asteroid_valid(s) ==
    LET a_idx == s.selected_asteroid
    IN  /\ a_idx >= 0
        /\ a_idx < 16
        /\ AstValidAt(s, s.current_node, a_idx) # 0
        /\ s.depletion[s.current_node][a_idx] < 100


abp_est_cargo_value(s) ==
    SumComm([c \in Commodities |-> MulQ(s.cargo[c], s.market_price[c])])

abp_steps_to_station(s) ==
    IF s.current_node >= s.node_count THEN MaxNodes - 1
    ELSE s.steps_to_station[s.current_node]

(***************************************************************************)
(* abp_pack_obs: the 260 observation entries, block by block (a tuple, so  *)
(* entry i of the code is element i+1).                                    *)
(***************************************************************************)
Zeros(n) == [i \in 1 .. n |-> 0]

Bool01(b) == IF b THEN 100 ELSE 0

OneHot3(t) == <<Bool01(t = 0), Bool01(t = 1), Bool01(t = 2)>>

abp_normalize_comp_est_6_to_obs(in) ==
    Only({Only({
       [i \in 1 .. ABP_N_COMMODITIES |->
          IF sum <= 0 THEN 100 \div ABP_N_COMMODITIES ELSE MulQ(fl[i - 1], DivQ(100, sum))]
       : sum \in {SumComm(fl)}})
       : fl \in {[c \in Commodities |-> IF in[c] < 1 THEN 1 ELSE in[c]]}})

\* The 7 entries of neighbor slot `slot` and of every later slot up to 5; the
\* slots at and above MaxNeighbors hold no neighbor.
RECURSIVE ObsNeighborBlocks(_, _)
ObsNeighborBlocks(s, slot) ==
    IF slot >= MaxNeighbors THEN Zeros(7 * (6 - slot))
    ELSE (IF NeighborAt(s, s.current_node, slot) < 0 THEN Zeros(7)
          ELSE <<100>> \o OneHot3(s.node_type[NeighborAt(s, s.current_node, slot)])
               \o << abp_clampf(DivQ(s.edge_travel_time[s.current_node][slot] * 100, 800),
                                0, 100),
                     abp_clampf(DivQ(s.edge_fuel_cost[s.current_node][slot], 16000),
                                0, 100),
                     abp_clampf(s.edge_threat_est[s.current_node][slot], 0, 100) >>)
         \o ObsNeighborBlocks(s, slot + 1)

\* The 11 entries of asteroid slot a_idx and of every later slot up to 15; the
\* slots at and above MaxAsteroids are never valid.
RECURSIVE ObsAsteroidBlocks(_, _)
ObsAsteroidBlocks(s, a_idx) ==
    IF a_idx >= MaxAsteroids THEN Zeros(11 * (16 - a_idx))
    ELSE (IF AstValidAt(s, s.current_node, a_idx) = 0 THEN Zeros(11)
          ELSE <<100>>
               \o abp_normalize_comp_est_6_to_obs(s.comp_est[s.current_node][a_idx])
               \o << abp_clampf(s.stability_est[s.current_node][a_idx], 0, 100),
                     abp_clampf(s.depletion[s.current_node][a_idx], 0, 100),
                     abp_clampf(s.scan_conf[s.current_node][a_idx], 0, 100),
                     Bool01(a_idx = s.selected_asteroid) >>)
         \o ObsAsteroidBlocks(s, a_idx + 1)

ObsMarket(s) ==
    [i \in 1 .. ABP_N_COMMODITIES |->
       abp_clampf(DivQ(s.market_price[i - 1], k_price_base[i]), 0, 100)]
    \o [i \in 1 .. ABP_N_COMMODITIES |->
          abp_clampf((s.market_price[i - 1] - s.market_prev_price[i - 1]) \div 100,
                     -100, 100)]
    \o << abp_clampf(DivQ(s.station_inventory[0], 50000), 0, 100),
          abp_clampf(DivQ(s.station_inventory[2], 50000), 0, 100),
          abp_clampf(DivQ(s.station_inventory[3], 50000), 0, 100),
          abp_clampf(DivQ(s.station_inventory[4], 50000), 0, 100) >>

abp_pack_obs(s) ==
    << abp_clampf(DivQ(s.fuel, ABP_FUEL_MAX), 0, 100),
       abp_clampf(DivQ(s.hull, ABP_HULL_MAX), 0, 100),
       abp_clampf(DivQ(s.heat, ABP_HEAT_MAX), 0, 100),
       abp_clampf(DivQ(s.tool_condition, ABP_TOOL_MAX), 0, 100),
       abp_clampf(DivQ(abp_cargo_sum(s), ABP_CARGO_MAX), 0, 100),
       abp_clampf(DivQ(s.alert, ABP_ALERT_MAX), 0, 100),
       abp_clampf(DivQ(s.time_remaining, s.config.time_max), 0, 100),
       abp_clampf(DivQ(log1pf(fmaxf(0, s.credits)), log1pf(1000000000)), 0, 100) >>
    \o [i \in 1 .. ABP_N_COMMODITIES |->
          abp_clampf(DivQ(s.cargo[i - 1], ABP_CARGO_MAX), 0, 100)]
    \o << abp_clampf(DivQ(s.repair_kits * 100, 1200), 0, 100),
          abp_clampf(DivQ(s.stabilizers * 100, 1200), 0, 100),
          abp_clampf(DivQ(s.decoys * 100, 1200), 0, 100),
          Bool01(abp_is_at_station(s)),
          Bool01(abp_selected_asteroid_valid(s)) >>
    \o OneHot3(s.node_type[s.current_node])
    \o << abp_clampf(DivQ(s.current_node * 100, (MaxNodes - 1) * 100), 0, 100),
          abp_clampf(DivQ(abp_steps_to_station(s) * 100, (MaxNodes - 1) * 100), 0, 100) >>
    \o ObsNeighborBlocks(s, 0)
    \o Zeros(2)
    \o ObsAsteroidBlocks(s, 0)
    \o ObsMarket(s)

\* The state with its observation buffer rewritten from its fields.
PackObs(s) == Stored([s EXCEPT !.obs_buffer = abp_pack_obs(s)])

(***************************************************************************)
(* Construction.  A configuration argument is << >> (NULL) or <<cfg>>.     *)
(***************************************************************************)
abp_core_default_config == [time_max |-> ABP_TIME_MAX, invalid_action_penalty |-> 1]

\* A configuration stored as the caller gave it.
ConfigAsGiven(config) == IF config = << >> THEN abp_core_default_config ELSE config[1]

\* The configuration abp_core_init stores: the caller's (or the default for
\* NULL), each value that is <= 0 replaced by its default.
InitConfig(config) ==
    LET c == IF config = << >> THEN abp_core_default_config ELSE config[1]
    IN  [time_max |-> IF c.time_max <= 0 THEN ABP_TIME_MAX ELSE c.time_max,
         invalid_action_penalty |->
            IF c.invalid_action_penalty <= 0 THEN 1 ELSE c.invalid_action_penalty]

\* abp_generate_world: graph, reachability index, asteroids, market.
\* The world record from the graph w, the asteroid draw ast and the market
\* draw mkt.
WorldOf(w, ast, mkt) ==
    [w |-> w, steps_to_station |-> abp_recompute_steps_to_station(w),
     ast |-> ast.table, mkt |-> mkt.v, rng |-> mkt.rng]

WorldMarket(w, ast) == WorldOf(w, ast, abp_generate_market(ast.rng))

WorldAsteroids(w) == WorldMarket(w, abp_generate_asteroids(w))

abp_generate_world(rng) == WorldAsteroids(GenGraph(rng))

\* The fields abp_core_init writes, from the stored configuration cfg and the
\* generated world g.
InitState(cfg, g, seed) ==
    [config |-> cfg,
     rng |-> g.rng,
     seed |-> seed,
     ticks_elapsed |-> 0,
     time_remaining |-> cfg.time_max,
     needs_reset |-> 0,
     node_count |-> g.w.node_count,
     current_node |-> 0,
     selected_asteroid |-> -1,
     credits |-> 0,
     fuel |-> ABP_FUEL_MAX,
     hull |-> ABP_HULL_MAX,
     heat |-> 0,
     tool_condition |-> ABP_TOOL_MAX,
     alert |-> 0,
     cargo |-> [c \in Commodities |-> 0],
     repair_kits |-> 3,
     stabilizers |-> 2,
     decoys |-> 1,
     escape_buff_ticks |-> 0,
     stabilize_buff_ticks |-> [a \in Asteroids |-> 0],
     node_type |-> g.w.node_type,
     node_hazard |-> g.w.node_hazard,
     node_pirate |-> g.w.node_pirate,
     neighbors |-> g.w.neighbors,
     edge_travel_time |-> g.w.edge_travel_time,
     edge_fuel_cost |-> g.w.edge_fuel_cost,
     edge_threat_true |-> g.w.edge_threat_true,
     edge_threat_est |-> g.w.edge_threat_est,
     steps_to_station |-> g.steps_to_station,
     ast_valid |-> [n \in Nodes |-> [a \in Asteroids |-> g.ast[n][a].valid]],
     true_comp |-> [n \in Nodes |-> [a \in Asteroids |-> g.ast[n][a].true_comp]],
     richness |-> [n \in Nodes |-> [a \in Asteroids |-> g.ast[n][a].richness]],
     stability_true |-> [n \in Nodes |-> [a \in Asteroids |-> g.ast[n][a].stability_true]],
     noise_profile |-> [n \in Nodes |-> [a \in Asteroids |-> g.ast[n][a].noise_profile]],
     comp_est |-> [n \in Nodes |-> [a \in Asteroids |-> g.ast[n][a].comp_est]],
     stability_est |-> [n \in Nodes |-> [a \in Asteroids |-> g.ast[n][a].stability_est]],
     scan_conf |-> [n \in Nodes |-> [a \in Asteroids |-> g.ast[n][a].scan_conf]],
     depletion |-> [n \in Nodes |-> [a \in Asteroids |-> g.ast[n][a].depletion]],
     market_price |-> [c \in Commodities |-> g.mkt[c + 1].market_price],
     market_prev_price |-> [c \in Commodities |-> g.mkt[c + 1].market_price],
     price_phase |-> [c \in Commodities |-> g.mkt[c + 1].price_phase],
     price_period |-> [c \in Commodities |-> g.mkt[c + 1].price_period],
     price_amp |-> [c \in Commodities |-> g.mkt[c + 1].price_amp],
     station_inventory |-> [c \in Commodities |-> g.mkt[c + 1].station_inventory],
     recent_sales |-> [c \in Commodities |-> 0],
     total_spend |-> 0,
     overheat_ticks |-> 0,
     pirate_encounters |-> 0,
     value_lost_to_pirates |-> 0,
     scan_count |-> 0,
     mining_ticks |-> 0,
     fuel_start |-> ABP_FUEL_MAX,
     hull_start |-> ABP_HULL_MAX,
     tool_start |-> ABP_TOOL_MAX,
     cargo_util_sum |-> 0,
     cargo_util_count |-> 0,
     obs_buffer |-> << >>]

abp_core_init(config, seed) ==
    PackObs(InitState(InitConfig(config), abp_generate_world(abp_rng_seed(seed, 54)), seed))

(***************************************************************************)
(* The per-action helpers of the dispatcher.  Each takes the instance      *)
(* state s and gives the state the C function leaves.                      *)
(***************************************************************************)
abp_passive_heat_dissipation(s, dt) == [s EXCEPT !.heat = fmaxf(0, s.heat - 250 * dt)]

abp_apply_hold(s) ==
    abp_passive_heat_dissipation([s EXCEPT !.alert = fmaxf(0, s.alert - 300)], 1)

abp_apply_emergency_burn(s) ==
    [s EXCEPT !.fuel = s.fuel - 1800,
              !.alert = s.alert + 1000,
              !.escape_buff_ticks = IF s.escape_buff_ticks < 4 THEN 4 ELSE @]

\* The hit branch of abp_maybe_pirate_encounter; rng is the generator after
\* the encounter draw.
PirateHit(s, rng, cargo_value_before) ==
    Only({Only({Only({Only({Only({Only({Only({
       [s1 EXCEPT
          !.value_lost_to_pirates =
             IF cargo_value_before > cargo_value_after
             THEN @ + (cargo_value_before - cargo_value_after) ELSE @,
          !.hull = @ - dhull.v,
          !.alert = @ + 800,
          !.rng = dhull.rng]
       : dhull \in {abp_rng_uniform(ddecoy.rng, 100, 400)}})
       : cargo_value_after \in {abp_est_cargo_value(s1)}})
       : s1 \in {[s EXCEPT
                    !.pirate_encounters = @ + 1,
                    !.decoys = IF decoy THEN @ - 1 ELSE @,
                    !.cargo = [c \in Commodities |-> MulQ(s.cargo[c], 100 - loss_frac)]]}})
       : loss_frac \in {IF decoy THEN MulQ(dloss.v, 30) ELSE dloss.v}})
       : decoy \in {s.decoys > 0 /\ ddecoy.v < 60}})
       : ddecoy \in {IF s.decoys > 0 THEN abp_rng_next_f32(dloss.rng)
                     ELSE [v |-> 100, rng |-> dloss.rng]}})
       : dloss \in {abp_rng_uniform(rng, 8, 20)}})

abp_maybe_pirate_encounter(s, dt, intensity) ==
    IF abp_is_at_station(s) THEN s
    ELSE Only({Only({
       LET pirate_intensity == IF intensity < 0 THEN s.node_pirate[s.current_node]
                               ELSE intensity
           logit == (-400) + MulQ(300, pirate_intensity)
                      + MulQ(220, abp_clampf(DivQ(s.alert, ABP_ALERT_MAX), 0, 100))
                      + MulQ(80, log1pf(DivQ(cargo_value_before, ABP_CREDIT_SCALE)))
                      - (IF s.escape_buff_ticks > 0 THEN 280 ELSE 0)
           base_prob == abp_sigmoid(logit)
           p_encounter == 100 - powf(100 - base_prob, IF dt = 0 THEN 1 ELSE dt)
       IN  IF d.v >= p_encounter THEN [s EXCEPT !.rng = d.rng]
           ELSE PirateHit(s, d.rng, cargo_value_before)
       : d \in {abp_rng_next_f32(s.rng)}})
       : cargo_value_before \in {abp_est_cargo_value(s)}})

abp_apply_edge_hazards_and_pirates(s, dt, edge_threat) ==
    IF dt = 0 THEN s
    ELSE abp_maybe_pirate_encounter(
            Only({[s EXCEPT !.rng = d.rng,
                            !.hull = @ - MulQ(dt * MulQ(edge_threat, 70), d.v),
                            !.heat = @ + dt * MulQ(edge_threat, 50),
                            !.alert = @ + dt * MulQ(edge_threat, 80)]
                    : d \in {abp_rng_uniform(s.rng, 85, 115)}}),
            dt, edge_threat)

\* [s, dt, invalid]
\* A travel that accepts every slot and goes nowhere.
TravelNowhere(s, slot) == [s |-> s, dt |-> 1, invalid |-> 0]

abp_apply_travel(s, slot) ==
    LET neighbor == NeighborAt(s, s.current_node, slot)
    IN  IF neighbor < 0 THEN [s |-> s, dt |-> 1, invalid |-> 1]
        ELSE LET t == s.edge_travel_time[s.current_node][slot]
                 dt == IF t = 0 THEN 1 ELSE t
                 mass_factor == 100 + MulQ(50, DivQ(abp_cargo_sum(s), ABP_CARGO_MAX))
                 fuel_cost == MulQ(s.edge_fuel_cost[s.current_node][slot], mass_factor)
                 threat == s.edge_threat_true[s.current_node][slot]
             IN  [s |-> abp_apply_edge_hazards_and_pirates(
                           [s EXCEPT !.fuel = @ - fuel_cost,
                                     !.current_node = neighbor,
                                     !.selected_asteroid = -1],
                           dt, threat),
                  dt |-> dt, invalid |-> 0]

\* n further normal draws with the same mean and sigma appended to acc.
RECURSIVE Normals(_, _, _, _)
Normals(acc, n, mean, sigma) ==
    IF n = 0 THEN acc
    ELSE Only({Normals(AppendDraw(acc, d), n - 1, mean, sigma)
                 : d \in {abp_rng_normal(acc.rng, mean, sigma)}})

ScanBlend(mode) == IF mode = 0 THEN 22 ELSE IF mode = 1 THEN 42 ELSE 80

\* A scan that gains no confidence.
NoConfGain(mode) == 0

ScanConfGain(mode) == IF mode = 0 THEN 10 ELSE IF mode = 1 THEN 20 ELSE 45

ScanNoiseMult(mode) == IF mode = 0 THEN 135 ELSE IF mode = 1 THEN 100 ELSE 55

\* A scan that raises the confidence of every asteroid of the world.
ScanEverywhere(s, asteroid, mode) ==
    [s EXCEPT !.scan_conf = [n \in Nodes |-> [a \in Asteroids |-> 100]]]

abp_update_asteroid_estimates(s, asteroid, mode) ==
    IF AstValidAt(s, s.current_node, asteroid) = 0 THEN s
    ELSE Only({Only({Only({
       LET node == s.current_node
           blend == ScanBlend(mode)
           noisy_truth == abp_normalize_probs(
                             [c \in Commodities |->
                                s.true_comp[node][asteroid][c] + dn.v[c + 1]])
           mixed_norm == abp_normalize_probs(
                            [c \in Commodities |->
                               MulQ(100 - blend, s.comp_est[node][asteroid][c])
                                 + MulQ(blend, noisy_truth[c])])
           stable_noisy == abp_clampf(s.stability_true[node][asteroid] + ds.v, 0, 100)
           stable_est == MulQ(100 - blend, s.stability_est[node][asteroid])
                           + MulQ(blend, stable_noisy)
       IN  [s EXCEPT
              !.rng = ds.rng,
              !.comp_est[node][asteroid] = mixed_norm,
              !.stability_est[node][asteroid] = abp_clampf(stable_est, 0, 100),
              !.scan_conf[node][asteroid] =
                 abp_clampf(s.scan_conf[node][asteroid] + ScanConfGain(mode), 0, 100)]
       : ds \in {abp_rng_normal(dn.rng, 0, sigma)}})
       : dn \in {Normals([v |-> << >>, rng |-> s.rng], ABP_N_COMMODITIES, 0, sigma)}})
       : sigma \in {MulQ(MulQ(s.noise_profile[s.current_node][asteroid],
                              100 - s.scan_conf[s.current_node][asteroid] + 10),
                         ScanNoiseMult(mode))}})

\* The loop of abp_update_cluster_priors_with_noise from slot a_idx on; the
\* slots at and above MaxAsteroids are never valid.
RECURSIVE ClusterPriorsFrom(_, _)
ClusterPriorsFrom(s, a_idx) ==
    IF a_idx >= MaxAsteroids THEN s
    ELSE IF AstValidAt(s, s.current_node, a_idx) = 0 THEN ClusterPriorsFrom(s, a_idx + 1)
    ELSE Only({ClusterPriorsFrom(s1, a_idx + 1)
                 : s1 \in {abp_update_asteroid_estimates(s, a_idx, 0)}})

abp_update_cluster_priors_with_noise(s) == ClusterPriorsFrom(s, 0)

\* The loop of abp_update_neighbor_threat_estimates from slot `slot` on; the
\* slots at and above MaxNeighbors hold no neighbor.
RECURSIVE ThreatEstimatesFrom(_, _)
ThreatEstimatesFrom(s, slot) ==
    IF slot >= MaxNeighbors THEN s
    ELSE IF NeighborAt(s, s.current_node, slot) < 0 THEN ThreatEstimatesFrom(s, slot + 1)
    ELSE Only({ThreatEstimatesFrom(
                  [s EXCEPT
                     !.rng = d.rng,
                     !.edge_threat_est[s.current_node][slot] =
                        MulQ(25, s.edge_threat_est[s.current_node][slot])
                          + MulQ(75, abp_clampf(
                                        s.edge_threat_true[s.current_node][slot] + d.v,
                                        0, 100))],
                  slot + 1)
                 : d \in {abp_rng_normal(s.rng, 0, 8)}})

abp_update_neighbor_threat_estimates(s) == ThreatEstimatesFrom(s, 0)

\* [s, ok]
\* A selection that accepts every slot.
SelectAnySlot(s, asteroid) == [s |-> [s EXCEPT !.selected_asteroid = asteroid], ok |-> TRUE]

abp_select_asteroid(s, asteroid) ==
    IF \/ asteroid < 0
       \/ asteroid >= 16
       \/ AstValidAt(s, s.current_node, asteroid) = 0
       \/ s.depletion[s.current_node][asteroid] >= 100
    THEN [s |-> s, ok |-> FALSE]
    ELSE [s |-> [s EXCEPT !.selected_asteroid = asteroid], ok |-> TRUE]

\* The per-mode table of abp_mine_selected: 28 careful, 29 normal, 30 aggressive.
MineMode(action) ==
    IF action = 28
    THEN [mode_mult |-> 80, heat_gain |-> 200, wear_gain |-> 80, alert_gain |-> 120,
          sigma |-> 5, fracture_bias |-> -70]
    ELSE IF action = 29
    THEN [mode_mult |-> 115, heat_gain |-> 400, wear_gain |-> 160, alert_gain |-> 220,
          sigma |-> 10, fracture_bias |-> 0]
    ELSE [mode_mult |-> 155, heat_gain |-> 700, wear_gain |-> 280, alert_gain |-> 400,
          sigma |-> 16, fracture_bias |-> 80]

\* The fracture check that ends abp_mine_selected; s is the state after the
\* extraction, heat_frac and tool_frac the fractions taken before it.
MineFracture(s, node, a_idx, m, heat_frac, tool_frac) ==
    Only({
       IF d.v < abp_sigmoid((-310) + m.fracture_bias
                              + MulQ(250, 100 - s.stability_true[node][a_idx])
                              + MulQ(220, fmaxf(0, heat_frac - 70))
                              + MulQ(150, 100 - tool_frac)
                              - (IF s.stabilize_buff_ticks[a_idx] > 0 THEN 110 ELSE 0))
       THEN Only({[s EXCEPT !.rng = dsev.rng,
                            !.hull = @ - MulQ(1200, dsev.v),
                            !.depletion[node][a_idx] = 100,
                            !.node_hazard[node] = abp_clampf(@ + 10, 0, 100)]
                    : dsev \in {abp_rng_uniform(d.rng, 50, 100)}})
       ELSE [s EXCEPT !.rng = d.rng]
       : d \in {abp_rng_next_f32(s.rng)}})

\* The extraction of abp_mine_selected: raw is the per-commodity yield before
\* the cargo cap, rng the generator after the noise draw.
MineExtract(s, m, raw, raw_total, available_capacity, rng) ==
    LET node == s.current_node
        a_idx == s.selected_asteroid
        capped == raw_total > available_capacity /\ raw_total > 0
        scale == IF capped THEN DivQ(available_capacity, raw_total) ELSE 100
        extracted == [c \in Commodities |-> IF capped THEN MulQ(raw[c], scale) ELSE raw[c]]
        total_extracted == IF capped THEN available_capacity ELSE raw_total
    IN  [s EXCEPT
           !.rng = rng,
           !.cargo = [c \in Commodities |-> s.cargo[c] + extracted[c]],
           !.heat = @ + m.heat_gain,
           !.tool_condition = @ - m.wear_gain,
           !.alert = @ + m.alert_gain,
           !.depletion[node][a_idx] = abp_clampf(@ + MulQ(1, total_extracted), 0, 100),
           !.mining_ticks = @ + 1]

\* The yield of the selected asteroid before composition: richness left,
\* tool and heat efficiency, mode multiplier, lognormal noise.
MineGain(s, m, tool_frac, heat_frac, noise) ==
    MulQ(MulQ(MulQ(MulQ(MulQ(s.richness[s.current_node][s.selected_asteroid],
                             fmaxf(0, 100 - s.depletion[s.current_node]
                                                       [s.selected_asteroid])),
                        40 + MulQ(60, tool_frac)),
                   IF heat_frac <= 70 THEN 100
                   ELSE fmaxf(10, 100 - DivQ(heat_frac - 70, 30))),
              m.mode_mult),
         noise)

abp_mine_selected(s, action) ==
    Only({Only({Only({Only({Only({Only({
       MineFracture(
          MineExtract(s, m, raw, SumComm(raw),
                      fmaxf(0, ABP_CARGO_MAX - abp_cargo_sum(s)), dnoise.rng),
          s.current_node, s.selected_asteroid, m, heat_frac, tool_frac)
       : raw \in {[c \in Commodities |->
                     MulQ(gain, s.true_comp[s.current_node][s.selected_asteroid][c])]}})
       : gain \in {MineGain(s, m, tool_frac, heat_frac, expf(dnoise.v))}})
       : dnoise \in {abp_rng_normal(s.rng, 0, m.sigma)}})
       : heat_frac \in {abp_clampf(DivQ(s.heat, ABP_HEAT_MAX), 0, 200)}})
       : tool_frac \in {abp_clampf(DivQ(s.tool_condition, ABP_TOOL_MAX), 0, 100)}})
       : m \in {MineMode(action)}})

abp_refine_some_cargo(s) ==
    LET low_value == s.cargo[0] + s.cargo[1]
        refine_input == MulQ(15, low_value)
        take_ratio == fminf(100, DivQ(refine_input, low_value))
    IN  IF low_value <= 0 THEN s
        ELSE [s EXCEPT !.cargo[0] = MulQ(@, 100 - take_ratio),
                       !.cargo[1] = MulQ(@, 100 - take_ratio),
                       !.cargo[4] = @ + MulQ(65, refine_input)]

abp_slippage(qty, inventory) ==
    IF qty <= 0 THEN 0
    ELSE LET ratio == DivQ(qty, fmaxf(100, inventory + qty))
         IN  abp_clampf(MulQ(25, ratio) + MulQ(20, sqrtf(ratio)), 0, 70)

\* Every bucket sells the whole holding.
SellEverything(bucket) == 100

SellFraction(bucket) == IF bucket = 0 THEN 25 ELSE IF bucket = 1 THEN 50 ELSE 100

abp_sell_action(s, action) ==
    LET c_idx == (action - 43) \div 3
        bucket == (action - 43) % 3
        qty == MulQ(s.cargo[c_idx], SellFraction(bucket))
        slippage == abp_slippage(qty, s.station_inventory[c_idx])
        effective_price == MulQ(s.market_price[c_idx], 100 - slippage)
    IN  IF qty <= 0 THEN s
        ELSE [s EXCEPT !.credits = @ + MulQ(qty, effective_price),
                       !.cargo[c_idx] = fmaxf(0, @ - qty),
                       !.station_inventory[c_idx] = @ + qty,
                       !.recent_sales[c_idx] = @ + qty]

\* A fuel purchase that does not look at the account.
BuyFuelOnCredit(s, qty, cost) ==
    [s |-> [s EXCEPT !.credits = @ - cost,
                     !.total_spend = @ + cost,
                     !.fuel = fminf(ABP_FUEL_MAX, @ + qty)],
     ok |-> TRUE]

\* [s, ok]
abp_buy_fuel(s, qty, cost) ==
    IF s.credits < cost THEN [s |-> s, ok |-> FALSE]
    ELSE [s |-> [s EXCEPT !.credits = @ - cost,
                          !.total_spend = @ + cost,
                          !.fuel = fminf(ABP_FUEL_MAX, @ + qty)],
          ok |-> TRUE]

\* [s, ok]; kind 0 repair kit, 1 stabilizer, otherwise decoy.
abp_buy_supply(s, kind) ==
    IF kind = 0
    THEN IF s.credits < 15000 \/ s.repair_kits >= 12 THEN [s |-> s, ok |-> FALSE]
         ELSE [s |-> [s EXCEPT !.credits = @ - 15000, !.total_spend = @ + 15000,
                               !.repair_kits = @ + 1],
               ok |-> TRUE]
    ELSE IF kind = 1
    THEN IF s.credits < 17500 \/ s.stabilizers >= 12 THEN [s |-> s, ok |-> FALSE]
         ELSE [s |-> [s EXCEPT !.credits = @ - 17500, !.total_spend = @ + 17500,
                               !.stabilizers = @ + 1],
               ok |-> TRUE]
    ELSE IF s.credits < 11000 \/ s.decoys >= 12 THEN [s |-> s, ok |-> FALSE]
         ELSE [s |-> [s EXCEPT !.credits = @ - 11000, !.total_spend = @ + 11000,
                               !.decoys = @ + 1],
               ok |-> TRUE]

abp_purchase_station_item(s, action) ==
    IF action = 61 THEN abp_buy_fuel(s, 12000, 6000)
    ELSE IF action = 62 THEN abp_buy_fuel(s, 26000, 12000)
    ELSE IF action = 63 THEN abp_buy_fuel(s, 48000, 21000)
    ELSE IF action = 64 THEN abp_buy_supply(s, 0)
    ELSE IF action = 65 THEN abp_buy_supply(s, 1)
    ELSE IF action = 66 THEN abp_buy_supply(s, 2)
    ELSE [s |-> s, ok |-> FALSE]

(***************************************************************************)
(* Global dynamics.                                                        *)
(***************************************************************************)
abp_apply_node_hazards(s, dt) ==
    IF s.node_hazard[s.current_node] <= 0 THEN s
    ELSE Only({[s EXCEPT
                  !.rng = d.rng,
                  !.hull = @ - MulQ(dt * MulQ(s.node_hazard[s.current_node], 70), d.v),
                  !.heat = @ + dt * MulQ(s.node_hazard[s.current_node], 50),
                  !.alert = @ + dt * MulQ(s.node_hazard[s.current_node], 80)]
                 : d \in {abp_rng_uniform(s.rng, 80, 120)}})

\* The new price of commodity c_idx at time t (ticks), given its noise draw.
MarketPrice(s, c_idx, t, noise) ==
    LET base == k_price_base[c_idx + 1]
        turns == DivQ(t * 100, s.price_period[c_idx])
        cycles == MulQ(s.price_amp[c_idx], sinf(MulQ(628, turns) + s.price_phase[c_idx]))
        inv_pressure == MulQ(4, s.station_inventory[c_idx])
        sale_pressure == MulQ(5, s.recent_sales[c_idx])
    IN  abp_clampf(base + cycles - inv_pressure - sale_pressure + noise,
                   k_price_min[c_idx + 1], k_price_max[c_idx + 1])

\* The new price of commodity c_idx as a draw: one normal draw of noise.
MarketPriceDraw(s, rng, c_idx, t, dt) ==
    LET d == abp_rng_normal(rng, 0,
                            MulQ(MulQ(3, k_price_base[c_idx + 1]),
                                 sqrtf((IF dt > 0 THEN dt ELSE 1) * 100)))
    IN  [rng |-> d.rng, v |-> MarketPrice(s, c_idx, t, d.v)]

\* The price loop of abp_update_market: the new prices appended to acc, one
\* per commodity in order, from commodity Len(acc.v) on.
RECURSIVE MarketPrices(_, _, _, _)
MarketPrices(s, acc, t, dt) ==
    IF Len(acc.v) >= ABP_N_COMMODITIES THEN acc
    ELSE MarketPrices(s, AppendDraw(acc, MarketPriceDraw(s, acc.rng, Len(acc.v), t, dt)),
                      t, dt)

abp_update_market(s, dt) ==
    Only({[s EXCEPT
             !.rng = prices.rng,
             !.market_prev_price = [c \in Commodities |-> s.market_price[c]],
             !.market_price = [c \in Commodities |-> prices.v[c + 1]],
             !.recent_sales =
                [c \in Commodities |->
                   MulQ(s.recent_sales[c], expf(0 - DivQ(dt * 100, 1400)))],
             !.station_inventory =
                [c \in Commodities |->
                   fmaxf((s.station_inventory[c] * 998) \div 1000, 0)]]
            : prices \in {MarketPrices(s, [v |-> << >>, rng |-> s.rng],
                                       s.ticks_elapsed + dt, dt)}})

\* A clamp that leaves every field as it finds it.
ClampNothing(s) == s

abp_clamp_state(s) ==
    LET clamped == [c \in Commodities |-> abp_clampf(s.cargo[c], 0, ABP_CARGO_MAX)]
        total_cargo == SumComm(clamped)
        scale == DivQ(ABP_CARGO_MAX, total_cargo)
    IN  [s EXCEPT
           !.fuel = abp_clampf(@, 0, ABP_FUEL_MAX),
           !.hull = abp_clampf(@, 0, ABP_HULL_MAX),
           !.heat = abp_clampf(@, 0, ABP_HEAT_MAX),
           !.tool_condition = abp_clampf(@, 0, ABP_TOOL_MAX),
           !.alert = abp_clampf(@, 0, ABP_ALERT_MAX),
           !.time_remaining = abp_clampf(@, 0, s.config.time_max),
           !.cargo = IF total_cargo > ABP_CARGO_MAX /\ total_cargo > 0
                     THEN [c \in Commodities |-> MulQ(clamped[c], scale)]
                     ELSE clamped]

abp_track_cargo_utilization(s, dt) ==
    LET frac == abp_clampf(DivQ(abp_cargo_sum(s), ABP_CARGO_MAX), 0, 100)
    IN  [s EXCEPT !.cargo_util_sum = @ + frac * dt,
                  !.cargo_util_count = @ + 100 * dt]

BuffAfter(ticks, dt) == IF ticks > 0 THEN (IF ticks > dt THEN ticks - dt ELSE 0) ELSE ticks

\* Time, passive cooling and the buff counters: the head of
\* abp_apply_global_dynamics.
DynamicsTimers(s, dt) ==
    LET s1 == abp_passive_heat_dissipation(
                 [s EXCEPT !.time_remaining = RoundFloat(@ - 100 * dt)], dt)
    IN  [s1 EXCEPT
           !.escape_buff_ticks = BuffAfter(@, dt),
           !.stabilize_buff_ticks =
             [a \in Asteroids |-> BuffAfter(s.stabilize_buff_ticks[a], dt)]]

DynamicsOverheat(s, dt) ==
    IF s.heat > ABP_HEAT_MAX
    THEN [s EXCEPT !.hull = @ - MulQ(125, s.heat - ABP_HEAT_MAX),
                   !.heat = ABP_HEAT_MAX,
                   !.overheat_ticks = @ + dt]
    ELSE s

DynamicsNode(s, dt) ==
    IF ~abp_is_at_station(s)
    THEN abp_maybe_pirate_encounter(abp_apply_node_hazards(s, dt), dt, -100)
    ELSE s

abp_apply_global_dynamics(s, dt) ==
    Stored(abp_track_cargo_utilization(
              abp_clamp_state(
                 abp_update_market(
                    Stored(DynamicsNode(DynamicsOverheat(DynamicsTimers(s, dt), dt), dt)),
                    dt)),
              dt))


(***************************************************************************)
(* Reward and metrics.  The reward is kept in units of 0.00001 so that its *)
(* smallest terms (0.001 per tick, 0.005 per scan) are not rounded away;   *)
(* every other float is in hundredths.                                     *)
(***************************************************************************)
AbpStepSnapshot(s) ==
    [credits_before |-> s.credits,
     fuel_before |-> s.fuel,
     hull_before |-> s.hull,
     heat_before |-> s.heat,
     tool_before |-> s.tool_condition,
     cargo_value_before |-> abp_est_cargo_value(s),
     value_lost_to_pirates_before |-> s.value_lost_to_pirates]

\* The terms abp_compute_reward adds up.
RewardTerms(s, snapshot, cargo_value_after, action, dt, invalid, destroyed, stranded, done) ==
    LET heat_term == DivQ(fmaxf(0, s.heat - MulQ(70, ABP_HEAT_MAX)), ABP_HEAT_MAX)
    IN  [r_sell |-> s.credits - snapshot.credits_before,
         r_extract |->
            (2 * fmaxf(0, cargo_value_after - snapshot.cargo_value_before)) \div 100,
         r_fuel |-> 0 - fmaxf(0, snapshot.fuel_before - s.fuel),
         r_time |-> 0 - 100 * dt,
         r_wear |-> 0 - 5 * fmaxf(0, snapshot.tool_before - s.tool_condition),
         r_damage |-> 0 - 100 * fmaxf(0, snapshot.hull_before - s.hull),
         r_heat |-> 0 - 2 * heat_term * heat_term,
         r_scan |-> IF action = 8 \/ action = 9 \/ action = 10 THEN -500 ELSE 0,
         r_invalid |-> IF invalid = 1 THEN 0 - 1000 * s.config.invalid_action_penalty ELSE 0,
         r_pirate |->
            0 - fmaxf(0, s.value_lost_to_pirates - snapshot.value_lost_to_pirates_before),
         r_terminal |->
            (IF stranded = 1 THEN -5000000 ELSE 0)
            + (IF destroyed = 1 THEN -10000000 ELSE 0)
            + (IF done = 1 /\ destroyed = 0 /\ stranded = 0
               THEN (2 * s.credits) \div 1000 ELSE 0)]

\* A reward that pays the ending bonus on every ending, lost ships included.
RewardBonusOnAnyEnd(s, snapshot, cargo_value_after, action, dt, invalid, destroyed, stranded, done) ==
    Only({r.r_sell + r.r_extract + r.r_fuel + r.r_time + r.r_wear + r.r_heat + r.r_damage
            + r.r_scan + r.r_invalid + r.r_pirate + r.r_terminal
            + (IF done = 1 /\ (destroyed = 1 \/ stranded = 1)
               THEN (2 * s.credits) \div 1000 ELSE 0)
            : r \in {RewardTerms(s, snapshot, cargo_value_after, action, dt, invalid,
                                 destroyed, stranded, done)}})

abp_compute_reward(s, snapshot, cargo_value_after, action, dt, invalid, destroyed, stranded, done) ==
    Only({r.r_sell + r.r_extract + r.r_fuel + r.r_time + r.r_wear + r.r_heat + r.r_damage
            + r.r_scan + r.r_invalid + r.r_pirate + r.r_terminal
            : r \in {RewardTerms(s, snapshot, cargo_value_after, action, dt, invalid,
                                 destroyed, stranded, done)}})

\* The metric fields abp_fill_step_metrics writes into the result.
abp_fill_step_metrics(s, destroyed, stranded) ==
    LET net_profit == s.credits - s.total_spend
    IN  [credits |-> s.credits,
         net_profit |-> net_profit,
         profit_per_tick |->
            net_profit \div (IF s.ticks_elapsed > 0 THEN s.ticks_elapsed ELSE 1),
         survival |-> IF destroyed = 1 \/ stranded = 1 THEN 0 ELSE 100,
         overheat_ticks |-> s.overheat_ticks,
         pirate_encounters |-> s.pirate_encounters,
         value_lost_to_pirates |-> s.value_lost_to_pirates,
         fuel_used |-> fmaxf(0, s.fuel_start - s.fuel),
         hull_damage |-> fmaxf(0, s.hull_start - s.hull),
         tool_wear |-> fmaxf(0, s.tool_start - s.tool_condition),
         scan_count |-> s.scan_count,
         mining_ticks |-> s.mining_ticks,
         cargo_utilization_avg |->
            abp_clampf(IF s.cargo_util_count > 0
                       THEN DivQ(s.cargo_util_sum, s.cargo_util_count) ELSE 0,
                       0, 100),
         time_remaining |-> s.time_remaining]

(***************************************************************************)
(* abp_core_step.  The dispatcher gives [s, dt, invalid, terminated]: the  *)
(* state after the action's own effect, the ticks it takes, whether it was *)
(* flagged invalid, and whether it ends the episode voluntarily.           *)
(***************************************************************************)
Dispatched(s, dt, invalid, terminated) ==
    [s |-> Stored(s), dt |-> dt, invalid |-> invalid, terminated |-> terminated]

\* Scans that charge fuel and alert only once the selection has been checked.
ScanChargedOnSuccess(s, action_int) ==
    IF action_int = 8
    THEN LET s1 == abp_update_cluster_priors_with_noise(
                      [s EXCEPT !.fuel = @ - 500, !.alert = @ + 400])
         IN  Dispatched([s1 EXCEPT !.scan_count = @ + 1], 3, 0, 0)
    ELSE IF ~abp_selected_asteroid_valid(s)
    THEN Dispatched(s, IF action_int = 9 THEN 2 ELSE 4, 1, 0)
    ELSE Only({Dispatched([s2 EXCEPT !.scan_count = @ + 1],
                          IF action_int = 9 THEN 2 ELSE 4, 0, 0)
                 : s2 \in {abp_update_asteroid_estimates(
                              [s EXCEPT !.fuel = @ - (IF action_int = 9 THEN 400 ELSE 800),
                                        !.alert = @ + (IF action_int = 9 THEN 300 ELSE 600)],
                              s.selected_asteroid, IF action_int = 9 THEN 1 ELSE 2)}})

\* Actions 8, 9, 10: wide, focused and deep scan.
DispatchScan(s, action_int) ==
    IF action_int = 8
    THEN LET s1 == abp_update_cluster_priors_with_noise(
                      [s EXCEPT !.fuel = @ - 500, !.alert = @ + 400])
         IN  Dispatched([s1 EXCEPT !.scan_count = @ + 1], 3, 0, 0)
    ELSE LET focused == action_int = 9
             dt == IF focused THEN 2 ELSE 4
         IN  Only({IF ~abp_selected_asteroid_valid(s1) THEN Dispatched(s1, dt, 1, 0)
                   ELSE LET s2 == abp_update_asteroid_estimates(
                                     s1, s1.selected_asteroid, IF focused THEN 1 ELSE 2)
                        IN  Dispatched([s2 EXCEPT !.scan_count = @ + 1], dt, 0, 0)
                     : s1 \in {[s EXCEPT !.fuel = @ - (IF focused THEN 400 ELSE 800),
                                         !.alert = @ + (IF focused THEN 300 ELSE 600)]}})

\* Ship actions that take nothing from the supplies.
ShipActionsFree(s, action_int) ==
    IF action_int = 31
    THEN IF ~abp_selected_asteroid_valid(s) \/ s.stabilizers = 0
         THEN Dispatched(s, 2, 1, 0)
         ELSE Dispatched([s EXCEPT !.stabilize_buff_ticks[s.selected_asteroid] = 6], 2, 0, 0)
    ELSE IF action_int \in {32, 33} THEN Dispatched(s, 2, 0, 0)
    ELSE IF s.repair_kits = 0 THEN Dispatched(s, 2, 1, 0)
    ELSE IF action_int = 34
    THEN Dispatched([s EXCEPT !.tool_condition = fminf(ABP_TOOL_MAX, @ + 2500)], 2, 0, 0)
    ELSE Dispatched([s EXCEPT !.hull = fminf(ABP_HULL_MAX, @ + 2000)], 2, 0, 0)

\* Actions 31..35: stabilize, refine, cooldown, tool maintenance, hull patch.
DispatchShip(s, action_int) ==
    IF action_int = 31
    THEN IF ~abp_selected_asteroid_valid(s) \/ s.stabilizers = 0
         THEN Dispatched(s, 2, 1, 0)
         ELSE Dispatched([s EXCEPT !.stabilizers = @ - 1,
                                   !.stabilize_buff_ticks[s.selected_asteroid] = 6],
                         2, 0, 0)
    ELSE IF action_int = 32
    THEN Dispatched(abp_refine_some_cargo(
                       [s EXCEPT !.fuel = @ - 400, !.heat = @ + 600, !.alert = @ + 300]),
                    2, 0, 0)
    ELSE IF action_int = 33
    THEN Dispatched([s EXCEPT !.fuel = @ - 200,
                              !.heat = fmaxf(0, @ - 2000),
                              !.alert = @ + 100],
                    2, 0, 0)
    ELSE IF s.repair_kits = 0 THEN Dispatched(s, 2, 1, 0)
    ELSE IF action_int = 34
    THEN Dispatched([s EXCEPT !.repair_kits = @ - 1,
                              !.tool_condition = fminf(ABP_TOOL_MAX, @ + 2500)],
                    2, 0, 0)
    ELSE Dispatched([s EXCEPT !.repair_kits = @ - 1,
                              !.hull = fminf(ABP_HULL_MAX, @ + 2000)],
                    2, 0, 0)

\* Actions 42..67: dock, sell, buy, overhaul.
DispatchStation(s, action_int) ==
    IF action_int = 42
    THEN IF ~abp_is_at_station(s) THEN Dispatched(s, 1, 1, 0)
         ELSE Dispatched([s EXCEPT !.alert = fmaxf(0, @ - 2000)], 1, 0, 0)
    ELSE IF action_int <= 60
    THEN IF ~abp_is_at_station(s) THEN Dispatched(s, 1, 1, 0)
         ELSE Dispatched(abp_sell_action(s, action_int), 1, 0, 0)
    ELSE IF action_int <= 66
    THEN IF ~abp_is_at_station(s) THEN Dispatched(s, 1, 1, 0)
         ELSE Only({Dispatched(bought.s, 1, IF bought.ok THEN 0 ELSE 1, 0)
                      : bought \in {abp_purchase_station_item(s, action_int)}})
    ELSE IF ~abp_is_at_station(s) \/ s.credits < 28000 THEN Dispatched(s, 3, 1, 0)
    ELSE Dispatched([s EXCEPT !.credits = @ - 28000,
                              !.total_spend = @ + 28000,
                              !.hull = ABP_HULL_MAX,
                              !.tool_condition = ABP_TOOL_MAX],
                    3, 0, 0)

\* The if/else chain of abp_core_step over the resolved action 0..68.
DispatchAction(s, action_int) ==
    IF action_int <= 5
    THEN Only({Dispatched(travel.s, travel.dt, travel.invalid, 0)
                 : travel \in {abp_apply_travel(s, action_int)}})
    ELSE IF action_int = 6 THEN Dispatched(abp_apply_hold(s), 1, 0, 0)
    ELSE IF action_int = 7 THEN Dispatched(abp_apply_emergency_burn(s), 1, 0, 0)
    ELSE IF action_int <= 10 THEN DispatchScan(s, action_int)
    ELSE IF action_int = 11
    THEN Dispatched(abp_update_neighbor_threat_estimates(s), 2, 0, 0)
    ELSE IF action_int <= 27
    THEN Only({Dispatched(sel.s, 1, IF sel.ok THEN 0 ELSE 1, 0)
                 : sel \in {abp_select_asteroid(s, action_int - 12)}})
    ELSE IF action_int <= 30
    THEN IF ~abp_selected_asteroid_valid(s) THEN Dispatched(s, 1, 1, 0)
         ELSE Dispatched(abp_mine_selected(s, action_int), 1, 0, 0)
    ELSE IF action_int <= 35 THEN DispatchShip(s, action_int)
    ELSE IF action_int <= 41
    THEN Dispatched([s EXCEPT !.cargo[action_int - 36] = 0,
                              !.alert = fmaxf(0, @ - 800)],
                    1, 0, 0)
    ELSE IF action_int <= 67 THEN DispatchStation(s, action_int)
    ELSE IF action_int = 68 THEN Dispatched(s, 1, 0, 1)
    ELSE Dispatched(s, 1, 1, 0)

\* The resolved action: a code outside 0..68 is replaced by hold.
\* A coercion that leaves every code as it is.
ResolveNothing(action) == action

ResolveAction(action) == IF action >= ABP_N_ACTIONS THEN 6 ELSE action

\* A dispatcher that refuses an emergency burn the tank cannot pay for.
DispatchRefusingShortBurn(s, action) ==
    IF ResolveAction(action) = 7 /\ s.fuel < 1800
    THEN Dispatched(abp_apply_hold(s), 1, 1, 0)
    ELSE Only({IF action >= ABP_N_ACTIONS \/ d.invalid > 0
               THEN Dispatched(abp_apply_hold(d.s), 1, 1, d.terminated)
               ELSE Dispatched(d.s, d.dt, 0, d.terminated)
                 : d \in {DispatchAction(s, ResolveAction(action))}})

\* Dispatch of the resolved action followed by the invalid-action block:
\* a step flagged invalid takes one tick and abp_apply_hold runs on whatever
\* state the dispatch left.
DispatchWithInvalid(s, action) ==
    Only({IF action >= ABP_N_ACTIONS \/ d.invalid > 0
          THEN Dispatched(abp_apply_hold(d.s), 1, 1, d.terminated)
          ELSE Dispatched(d.s, d.dt, 0, d.terminated)
            : d \in {DispatchAction(s, ResolveAction(action))}})

\* An end-of-episode evaluation that never reports the ship stranded.
EndWithoutStranding(s, voluntary) ==
    LET destroyed == IF s.hull <= 0 THEN 1 ELSE 0
        truncated == IF s.time_remaining <= 0 /\ destroyed = 0 /\ voluntary = 0 THEN 1 ELSE 0
    IN  [destroyed |-> destroyed, stranded |-> 0,
         terminated |-> IF destroyed = 1 THEN 1 ELSE voluntary,
         truncated |-> truncated,
         done |-> IF destroyed = 1 \/ voluntary = 1 \/ truncated = 1 THEN 1 ELSE 0]

\* The end-of-episode evaluation on the state after global dynamics;
\* voluntary is the dispatcher's terminated flag (action 68).
EpisodeEnd(s, voluntary) ==
    LET destroyed == IF s.hull <= 0 THEN 1 ELSE 0
        stranded == IF s.fuel <= 0 /\ ~abp_is_at_station(s) THEN 1 ELSE 0
        terminated == IF destroyed = 1 \/ stranded = 1 THEN 1 ELSE voluntary
        truncated == IF s.time_remaining <= 0 /\ terminated = 0 THEN 1 ELSE 0
    IN  [destroyed |-> destroyed, stranded |-> stranded, terminated |-> terminated,
         truncated |-> truncated,
         done |-> IF terminated = 1 \/ truncated = 1 THEN 1 ELSE 0]

\* The result structure: the fields the step sets itself and the metrics.
StepResult(obs, reward, terminated, truncated, invalid_action, dt, action, metrics) ==
    [obs |-> obs, reward |-> reward, terminated |-> terminated, truncated |-> truncated,
     invalid_action |-> invalid_action, dt |-> dt, action |-> action,
     credits |-> metrics.credits,
     net_profit |-> metrics.net_profit,
     profit_per_tick |-> metrics.profit_per_tick,
     survival |-> metrics.survival,
     overheat_ticks |-> metrics.overheat_ticks,
     pirate_encounters |-> metrics.pirate_encounters,
     value_lost_to_pirates |-> metrics.value_lost_to_pirates,
     fuel_used |-> metrics.fuel_used,
     hull_damage |-> metrics.hull_damage,
     tool_wear |-> metrics.tool_wear,
     scan_count |-> metrics.scan_count,
     mining_ticks |-> metrics.mining_ticks,
     cargo_utilization_avg |-> metrics.cargo_utilization_avg,
     time_remaining |-> metrics.time_remaining]

\* The branch of abp_core_step taken when needs_reset is set.
StepFinished(s) ==
    Only({[s |-> s1,
           out |-> StepResult(s1.obs_buffer, 0, 1, 0, 1, 0, -1,
                              abp_fill_step_metrics(s1, 0, 0))]
            : s1 \in {PackObs(s)}})

\* A step body that runs one tick of global dynamics before it dispatches
\* the action.
StepDynamicsFirst(s, action) ==
    Only({Only({Only({Only({
       [s |-> [s3 EXCEPT !.needs_reset = e.done],
        out |-> StepResult(s3.obs_buffer,
                           abp_compute_reward(s2, AbpStepSnapshot(s),
                                              abp_est_cargo_value(s2),
                                              ResolveAction(action), d.dt, d.invalid,
                                              e.destroyed, e.stranded, e.done),
                           e.terminated, e.truncated, d.invalid, d.dt,
                           ResolveAction(action),
                           abp_fill_step_metrics(s3, e.destroyed, e.stranded))]
       : s3 \in {PackObs(s2)}})
       : e \in {EpisodeEnd(s2, d.terminated)}})
       : s2 \in {[d.s EXCEPT !.ticks_elapsed = @ + d.dt]}})
       : d \in {DispatchWithInvalid(abp_apply_global_dynamics(s, 1), action)}})

\* The body of abp_core_step on an instance whose needs_reset is clear.
StepLive(s, action) ==
    Only({Only({Only({Only({
       [s |-> [s3 EXCEPT !.needs_reset = e.done],
        out |-> StepResult(s3.obs_buffer,
                           abp_compute_reward(s2, AbpStepSnapshot(s),
                                              abp_est_cargo_value(s2),
                                              ResolveAction(action), d.dt, d.invalid,
                                              e.destroyed, e.stranded, e.done),
                           e.terminated, e.truncated, d.invalid, d.dt,
                           ResolveAction(action),
                           abp_fill_step_metrics(s3, e.destroyed, e.stranded))]
       : s3 \in {PackObs(s2)}})
       : e \in {EpisodeEnd(s2, d.terminated)}})
       : s2 \in {[abp_apply_global_dynamics(d.s, d.dt) EXCEPT !.ticks_elapsed = @ + d.dt]}})
       : d \in {DispatchWithInvalid(s, action)}})

\* A step that lacks the needs_reset branch and runs the full body on a
\* finished instance too.
StepIgnoringFinished(s, action) == StepLive(s, action)

\* [s, out]: the instance afterwards and the result written.
abp_core_step(s, action) ==
    IF s.needs_reset > 0 THEN StepFinished(s) ELSE StepLive(s, action)

\* A reset that regenerates the world from the generator as the last episode
\* left it, without reseeding.
ResetKeepingRng(s, seed) ==
    PackObs(InitState(InitConfig(<<s.config>>), abp_generate_world(s.rng), seed))

\* A reset that carries the tank and the account over from the last episode.
ResetKeepingShip(s, seed) ==
    [abp_core_init(<<s.config>>, seed) EXCEPT !.fuel = s.fuel, !.credits = s.credits]

abp_core_reset(s, seed) == abp_core_init(<<s.config>>, seed)

abp_core_create(config, seed) == <<abp_core_init(config, seed)>>

(***************************************************************************)
(* The batched entry points.  states is the array of instance handles: a   *)
(* handle is << >> (NULL) or <<s>>.  actions, seeds and out_results are    *)
(* << >> (NULL) or <<array>>.                                              *)
(***************************************************************************)
\* The loop of abp_core_reset_many from index i on.
RECURSIVE ResetManyFrom(_, _, _)
ResetManyFrom(handles, seeds, i) ==
    IF i > Len(handles) THEN handles
    ELSE IF handles[i] = << >> THEN ResetManyFrom(handles, seeds, i + 1)
    ELSE Only({ResetManyFrom([handles EXCEPT ![i] = <<state>>], seeds, i + 1)
                 : state \in {abp_core_reset(
                                 handles[i][1],
                                 IF seeds # << >> THEN seeds[1][i]
                                 ELSE handles[i][1].seed)}})

abp_core_reset_many(handles, seeds) == ResetManyFrom(handles, seeds, 1)

\* A batched step whose loop stops at the first NULL handle instead of
\* skipping it.
RECURSIVE StepManyUntilNull(_, _, _)
StepManyUntilNull(run, actions, i) ==
    IF i > Len(run.states) \/ run.states[i] = << >> THEN run
    ELSE Only({StepManyUntilNull(
                  [states |-> [run.states EXCEPT ![i] = <<r.s>>],
                   out_results |-> [run.out_results EXCEPT ![i] = <<r.out>>]],
                  actions, i + 1)
                 : r \in {abp_core_step(run.states[i][1],
                                        IF actions # << >> THEN actions[1][i] ELSE 6)}})

\* The loop of abp_core_step_many from index i on; run is
\* [states, out_results], out_results holding what was there before.
RECURSIVE StepManyFrom(_, _, _)
StepManyFrom(run, actions, i) ==
    IF i > Len(run.states) THEN run
    ELSE IF run.states[i] = << >> THEN StepManyFrom(run, actions, i + 1)
    ELSE Only({StepManyFrom(
                  [states |-> [run.states EXCEPT ![i] = <<r.s>>],
                   out_results |-> [run.out_results EXCEPT ![i] = <<r.out>>]],
                  actions, i + 1)
                 : r \in {abp_core_step(run.states[i][1],
                                        IF actions # << >> THEN actions[1][i] ELSE 6)}})

abp_core_step_many(handles, actions, out_results) ==
    StepManyFrom([states |-> handles, out_results |-> out_results], actions, 1)

(***************************************************************************)
(* The state machine.  A client (the trace harness of core_test_runner.c,  *)
(* or a batched caller) owns an array of instances and calls the entry     *)
(* points on it.                                                           *)
(*   states   the instance handles                                         *)
(*   results  per instance, << >> or <<the last result written for it>>    *)
(*   hist     per instance, the action bytes stepped since its last        *)
(*            init/reset                                                   *)
(*   last     the last call: its name, its arguments, and the handles and  *)
(*            results as they were before it                               *)
(*   steps    the calls made since the start                               *)
(***************************************************************************)
VARIABLES states, results, hist, last, steps, runner

vars == <<states, results, hist, last, steps, runner>>

Seeds == 0 .. MaxSeed

\* Configurations handed to abp_core_create: NULL, a short episode with a
\* larger penalty, and one whose values are both invalid.
Configs ==
    {<< >>,
     <<[time_max |-> 300, invalid_action_penalty |-> 5]>>,
     <<[time_max |-> 0, invalid_action_penalty |-> -100]>>}

\* The action bytes the client sends: every dispatcher branch, and codes
\* outside 0..68.
ActionBytes ==
    {0, 1, 5, 6, 7, 8, 9, 10, 11, 12, 13, 27, 28, 30, 31, 32, 33, 34, 35, 36, 42, 43,
     44, 45, 61, 63, 64, 65, 66, 67, 68, 69, 255}

\* One iteration of the harness loop, unless the step would end the episode:
\* the run then stops in front of it.
ReplayStep(run, action) ==
    Only({IF r.out.terminated = 1 \/ r.out.truncated = 1 THEN [run EXCEPT !.stop = TRUE]
          ELSE [s |-> r.s, out |-> <<r.out>>, hist |-> Append(run.hist, action),
                stop |-> FALSE]
            : r \in {abp_core_step(run.s, action)}})

\* Iterations lo .. hi-1 of the harness loop over the action file acts, read
\* cyclically.
RECURSIVE Replay(_, _, _, _)
Replay(run, acts, lo, hi) ==
    IF run.stop \/ lo >= hi THEN run
    ELSE IF hi - lo = 1 THEN ReplayStep(run, acts[(lo % Len(acts)) + 1])
    ELSE Only({Replay(half, acts, (lo + hi) \div 2, hi)
                 : half \in {Replay(run, acts, lo, (lo + hi) \div 2)}})

\* The action files replayed before the model takes over: none, shuttling
\* along neighbor slot 0, mining the first asteroid of the first neighbor,
\* a mining trip that ends with a sale and a refuelling, and two repair
\* kits spent at the station before a stabilizer is deployed at the first
\* neighbor and the ship hops to the next node.
ShortScripts ==
    {[acts |-> <<0>>, n |-> 0],
     [acts |-> <<0>>, n |-> MaxWarm],
     [acts |-> <<0, 12, 30, 30, 30, 30>>, n |-> 6],
     [acts |-> <<0, 12, 30, 30, 30, 30, 0, 57, 61>>, n |-> 9],
     [acts |-> <<34, 35, 0, 12, 31, 1, 12>>, n |-> 7]}

\* Leaving the station to burn fuel until the tank is about to be empty, and
\* holding at the first neighbor of the station until the hull is about to
\* fail.
LongScripts ==
    {[acts |-> <<0>> \o [k \in 1 .. MaxBurns |-> 7], n |-> MaxBurns + 1],
     [acts |-> <<0>> \o [k \in 1 .. MaxHolds |-> 6], n |-> MaxHolds + 1]}

WarmScripts == ShortScripts \cup LongScripts

\* The instance created with (config, seed) after the harness replayed script.
Warm(config, seed, script) ==
    Replay([s |-> abp_core_create(config, seed)[1], out |-> << >>, hist |-> << >>,
            stop |-> FALSE],
           script.acts, 0, script.n)

\* The trace runner's own variables when no trace runner is running.
NoRunner == [seed |-> 0, episode_index |-> 0, trace |-> << >>]

NoCall == [op |-> "init", args |-> << >>, pre |-> << >>, preres |-> << >>]

Called(op, args) == [op |-> op, args |-> args, pre |-> states, preres |-> results]

Init ==
    \E config \in Configs, seed \in Seeds, script \in WarmScripts :
       /\ script \in LongScripts => config = << >> /\ seed = 0
       /\ \E run \in {Warm(config, seed, script)} :
          /\ states = <<<<run.s>>>>
          /\ results = <<run.out>>
          /\ hist = <<run.hist>>
          /\ last = NoCall
          /\ steps = 0
          /\ runner = NoRunner

\* The client calls abp_core_step(states[i], action, &results[i]).
Step(i, action) ==
    /\ steps < MaxSteps
    /\ states[i] # << >>
    /\ \E r \in {abp_core_step(states[i][1], action)} :
          /\ states' = [states EXCEPT ![i] = <<r.s>>]
          /\ results' = [results EXCEPT ![i] = <<r.out>>]
    /\ hist' = [hist EXCEPT ![i] = Append(@, action)]
    /\ last' = Called("step", <<i, action>>)
    /\ steps' = steps + 1
    /\ UNCHANGED runner

\* The client calls abp_core_reset(states[i], seed, NULL).
Reset(i, seed) ==
    /\ steps < MaxSteps
    /\ states[i] # << >>
    /\ states' = [states EXCEPT ![i] = <<abp_core_reset(states[i][1], seed)>>]
    /\ hist' = [hist EXCEPT ![i] = << >>]
    /\ last' = Called("reset", <<i, seed>>)
    /\ steps' = steps + 1
    /\ UNCHANGED runner
    /\ UNCHANGED results

Next ==
    \/ \E i \in 1 .. Len(states), action \in ActionBytes : Step(i, action)
    \/ \E i \in 1 .. Len(states), seed \in Seeds : Reset(i, seed)

Spec == Init /\ [][Next]_vars

(***************************************************************************)
(* World generation over a wider range of seeds: the client creates one    *)
(* instance from any seed in GenSeeds, then travels along the first two    *)
(* neighbor slots or resets.                                               *)
(***************************************************************************)
GenSeeds == 0 .. MaxGenSeed

InitGen ==
    \E seed \in GenSeeds :
       /\ states = <<abp_core_create(<< >>, seed)>>
       /\ results = <<<< >>>>
       /\ hist = <<<< >>>>
       /\ last = NoCall
       /\ steps = 0
       /\ runner = NoRunner

NextGen ==
    \/ \E action \in {0, 1} : Step(1, action)
    \/ \E seed \in Seeds : Reset(1, seed)

SpecGen == InitGen /\ [][NextGen]_vars

(***************************************************************************)
(* The stranding scenario: AbpCoreState is a public structure, and the     *)
(* client sets the fuel field of a live instance to 0 before stepping it.  *)
(***************************************************************************)
EmptyTank(i) ==
    /\ steps < MaxSteps
    /\ states[i] # << >>
    /\ states[i][1].needs_reset = 0
    /\ states' = [states EXCEPT ![i] = <<[states[i][1] EXCEPT !.fuel = 0]>>]
    /\ last' = Called("empty_tank", <<i>>)
    /\ steps' = steps + 1
    /\ UNCHANGED runner
    /\ UNCHANGED <<results, hist>>

NextForced ==
    \/ \E action \in ActionBytes : Step(1, action)
    \/ EmptyTank(1)

SpecForced == Init /\ [][NextForced]_vars

(***************************************************************************)
(* The configured client: it creates one instance with a configuration of  *)
(* its choice, or with NULL, then steps and resets it.                     *)
(***************************************************************************)
ConfigInputs ==
    {<< >>} \cup {<<[time_max |-> t, invalid_action_penalty |-> p]>>
                    : t \in {-500, 0, 300, 13107200}, p \in {-100, 0, 5}}

InitConfigured ==
    \E config \in ConfigInputs, seed \in Seeds :
       /\ states = <<abp_core_create(config, seed)>>
       /\ results = <<<< >>>>
       /\ hist = <<<< >>>>
       /\ last = [op |-> "create", args |-> <<config, seed>>, pre |-> << >>, preres |-> << >>]
       /\ steps = 0
       /\ runner = NoRunner

NextConfigured ==
    \/ \E action \in {0, 6, 68, 255} : Step(1, action)
    \/ \E seed \in Seeds : Reset(1, seed)

SpecConfigured == InitConfigured /\ [][NextConfigured]_vars

(***************************************************************************)
(* The trace runner: it creates one instance with the default              *)
(* configuration, steps it through the action file, writes one record per  *)
(* step and resets the engine after a step that ended the episode.         *)
(***************************************************************************)
RunnerActions == {0, 6, 68, 255}

\* The record the runner writes for step t.
TraceRecord(t, action, out) ==
    [t |-> t, action |-> action, dt |-> out.dt, reward |-> out.reward,
     terminated |-> out.terminated, truncated |-> out.truncated,
     invalid_action |-> out.invalid_action, resolved_action |-> out.action]

\* A runner that resets with the seed of the command line every time.
EpisodeSeedFixed(seed, episode_index) == seed

\* The seed the runner resets the engine with for episode episode_index.
EpisodeSeed(seed, episode_index) == seed + episode_index

InitRunner ==
    \E seed \in Seeds :
       /\ states = <<abp_core_create(<< >>, seed)>>
       /\ results = <<<< >>>>
       /\ hist = <<<< >>>>
       /\ last = NoCall
       /\ steps = 0
       /\ runner = [seed |-> seed, episode_index |-> 0, trace |-> << >>]

\* One iteration of the loop over the action file.
RunnerIteration(action) ==
    /\ steps < MaxRecords
    /\ \E r \in {abp_core_step(states[1][1], action)} :
       \E ended \in {r.out.terminated # 0 \/ r.out.truncated # 0} :
       \E episode_index \in {runner.episode_index + (IF ended THEN 1 ELSE 0)} :
          /\ states' = <<<<IF ended
                           THEN abp_core_reset(r.s, EpisodeSeed(runner.seed, episode_index))
                           ELSE r.s>>>>
          /\ results' = <<<<r.out>>>>
          /\ runner' = [runner EXCEPT
                          !.episode_index = episode_index,
                          !.trace = Append(@, TraceRecord(steps, action, r.out))]
    /\ hist' = [hist EXCEPT ![1] = Append(@, action)]
    /\ last' = Called("iteration", <<1, action>>)
    /\ steps' = steps + 1

NextRunner == \E action \in RunnerActions : RunnerIteration(action)

SpecRunner == InitRunner /\ [][NextRunner]_vars

(***************************************************************************)
(* The batched client: an array of two handles, one of which may be NULL,  *)
(* driven through abp_core_step_many and abp_core_reset_many.              *)
(***************************************************************************)
BatchConfigs == {<< >>, <<[time_max |-> 300, invalid_action_penalty |-> 5]>>}

\* The action arrays handed to abp_core_step_many: NULL, or one byte per
\* handle.
BatchActions == {<< >>} \cup {<<<<a, b>>>> : a, b \in {6, 8, 68}}

\* The seed arrays handed to abp_core_reset_many: NULL, or one seed per handle.
BatchSeeds == {<< >>} \cup {<<<<a, b>>>> : a, b \in Seeds}

InitMany ==
    \E config \in BatchConfigs, seed1, seed2 \in Seeds, null \in 0 .. 2 :
       /\ states = <<IF null = 1 THEN << >> ELSE abp_core_create(config, seed1),
                     IF null = 2 THEN << >> ELSE abp_core_create(config, seed2)>>
       /\ results = <<<< >>, << >>>>
       /\ hist = <<<< >>, << >>>>
       /\ last = NoCall
       /\ steps = 0
       /\ runner = NoRunner

\* The action abp_core_step_many hands to abp_core_step for handle i.
BatchActionAt(actions, i) == IF actions # << >> THEN actions[1][i] ELSE 6

\* The seed abp_core_reset_many hands to abp_core_reset for handle i.
BatchSeedAt(handles, seeds, i) ==
    IF seeds # << >> THEN seeds[1][i] ELSE handles[i][1].seed

\* The client calls abp_core_step_many(states, actions, 2, results).
StepMany(actions) ==
    /\ steps < MaxSteps
    /\ \E run \in {abp_core_step_many(states, actions, results)} :
          /\ states' = run.states
          /\ results' = run.out_results
    /\ hist' = [i \in 1 .. Len(states) |->
                  IF states[i] = << >> THEN hist[i]
                  ELSE Append(hist[i], BatchActionAt(actions, i))]
    /\ last' = Called("step_many", <<actions>>)
    /\ steps' = steps + 1
    /\ UNCHANGED runner

\* The client calls abp_core_reset_many(states, seeds, 2, NULL).
ResetMany(seeds) ==
    /\ steps < MaxSteps
    /\ states' = abp_core_reset_many(states, seeds)
    /\ hist' = [i \in 1 .. Len(states) |-> << >>]
    /\ last' = Called("reset_many", <<seeds>>)
    /\ steps' = steps + 1
    /\ UNCHANGED runner
    /\ UNCHANGED results

NextMany ==
    \/ \E actions \in BatchActions : StepMany(actions)
    \/ \E seeds \in BatchSeeds : ResetMany(seeds)

SpecMany == InitMany /\ [][NextMany]_vars

(***************************************************************************)
(* Properties.  The last call is described by `last`; for a call on one    *)
(* instance, Pre is the instance before the call, Post the instance after  *)
(* it, PreOut the result that was in its result slot before the call and   *)
(* Out the result the call wrote.                                          *)
(***************************************************************************)
LastStep == last.op = "step"

Inst == last.args[1]

Act == last.args[2]

Pre == last.pre[Inst][1]

Post == states[Inst][1]

PreOut == last.preres[Inst][1]

Out == results[Inst][1]

\* The last call was a step on an instance whose previous step, with no reset
\* in between, returned terminated or truncated.
EndedBefore ==
    /\ LastStep
    /\ Len(hist[Inst]) >= 2
    /\ last.preres[Inst] # << >>
    /\ (PreOut.terminated = 1 \/ PreOut.truncated = 1)

\* The last call was a step on an instance that was not finished.
LiveStep == LastStep /\ Pre.needs_reset = 0

\* C1: a step on an instance whose episode has ended returns invalid_action=1,
\* terminated=1, dt=0 and the observation of the ending step, and leaves the
\* instance exactly as it was.
PostTerminalShortCircuit ==
    EndedBefore =>
       /\ Out.invalid_action = 1
       /\ Out.terminated = 1
       /\ Out.dt = 0
       /\ Out.obs = PreOut.obs
       /\ Post = Pre

\* A step was taken after a step that truncated the episode.
PostTerminalShortCircuitSeen == EndedBefore /\ PreOut.truncated = 1 /\ Out.dt = 0

MetricNames ==
    {"credits", "net_profit", "profit_per_tick", "survival", "overheat_ticks",
     "pirate_encounters", "value_lost_to_pirates", "fuel_used", "hull_damage",
     "tool_wear", "scan_count", "mining_ticks", "cargo_utilization_avg"}

\* C2: a step on an instance whose episode has ended reports every metric with
\* the value the ending step reported.
PostTerminalMetricsUnchanged ==
    EndedBefore => \A m \in MetricNames : Out[m] = PreOut[m]

\* Handles i and j hold instances with the same configuration and seed that
\* were stepped with the same actions since they were created or last reset.
SameRun(i, j) ==
    /\ states[i] # << >>
    /\ states[j] # << >>
    /\ states[i][1].config = states[j][1].config
    /\ states[i][1].seed = states[j][1].seed
    /\ hist[i] = hist[j]

EpisodeEndEvaluation ==
    LiveStep =>
       /\ Out.terminated = 1 <=>
             \/ Post.hull <= 0
             \/ Post.fuel <= 0 /\ Post.current_node # 0
             \/ Act = 68
       /\ Out.truncated = 1 <=> (Post.time_remaining <= 0 /\ Out.terminated = 0)
       /\ ~(Out.terminated = 1 /\ Out.truncated = 1)
       /\ Out.terminated \in {0, 1} /\ Out.truncated \in {0, 1}
       /\ Post.needs_reset = 1 <=> (Out.terminated = 1 \/ Out.truncated = 1)
       /\ Post.needs_reset \in {0, 1}

\* A live step ended the episode with the ship stranded.
EpisodeEndEvaluationSeen ==
    LiveStep /\ Out.terminated = 1 /\ Post.fuel <= 0 /\ Post.current_node # 0 /\ Post.hull > 0

\* A live step truncated the episode.
EpisodeTruncationSeen == LiveStep /\ Out.truncated = 1

\* The bounded scalars of instance s are inside their domains.
InBounds(s) ==
    /\ 0 <= s.fuel /\ s.fuel <= 100000
    /\ 0 <= s.hull /\ s.hull <= 10000
    /\ 0 <= s.heat /\ s.heat <= 10000
    /\ 0 <= s.tool_condition /\ s.tool_condition <= 10000
    /\ 0 <= s.alert /\ s.alert <= 10000
    /\ \A c \in Commodities : s.cargo[c] >= 0
    /\ s.cargo[0] + s.cargo[1] + s.cargo[2] + s.cargo[3] + s.cargo[4] + s.cargo[5] <= 20000
    /\ 0 <= s.time_remaining /\ s.time_remaining <= s.config.time_max

\* C5: after create, reset and every step, fuel is in 0..1000, hull, heat, tool
\* condition and alert in 0..100, no cargo holding is negative, the cargo total
\* is at most 200, and the time remaining is in 0..time budget.
BoundsInvariant ==
    \A i \in 1 .. Len(states) : states[i] # << >> => InBounds(states[i][1])

\* A live step drove the fuel below zero or the alert above 100 before the
\* clamp: the tank ends at exactly 0 after a fuel-consuming action, or the
\* alert at exactly 100 after an alert-raising one.
BoundsInvariantSeen ==
    /\ LiveStep
    /\ \/ Post.fuel = 0 /\ Pre.fuel > 0 /\ Pre.fuel < 1800 /\ Act = 7
       \/ Post.alert = 10000 /\ Pre.alert < 10000

\* C6: a step of a live instance with an action code >= 69 is flagged invalid
\* and leaves the instance in the state a step with action 6 leaves it in.
OutOfRangeIsHold ==
    (LiveStep /\ Act >= 69) =>
       /\ Out.invalid_action = 1
       /\ Post = abp_core_step(Pre, 6).s

\* The state the attempted action leaves by its own effect, before the
\* invalid-action handling: a code outside 0..68 has no effect of its own.
AttemptEffect(s, action) ==
    IF action >= 69 THEN s ELSE DispatchAction(s, action).s

\* C7: a live step flagged invalid takes dt = 1, and the dispatcher applies the
\* hold effect once: the state handed to the global dynamics is the hold effect
\* on what the attempted action left.
InvalidHoldOnce ==
    (LiveStep /\ Out.invalid_action = 1) =>
       /\ Out.dt = 1
       /\ DispatchWithInvalid(Pre, Act).s = abp_apply_hold(AttemptEffect(Pre, Act))

\* The same for attempted codes 0..68 only.
InvalidHoldOnceInRange ==
    (LiveStep /\ Out.invalid_action = 1 /\ Act <= 68) =>
       /\ Out.dt = 1
       /\ DispatchWithInvalid(Pre, Act).s = abp_apply_hold(AttemptEffect(Pre, Act))

\* The nodes of world s reachable from the station in at most k hops along
\* neighbor slots.
RECURSIVE ReachableWithin(_, _)
ReachableWithin(s, k) ==
    IF k = 0 THEN {0}
    ELSE LET near == ReachableWithin(s, k - 1)
         IN  near \cup ({s.neighbors[n][slot] : n \in near, slot \in Slots} \ {-1})

\* C8: in every generated world, every node below node_count is reachable from
\* node 0 along neighbor slots.
GraphConnected ==
    \A i \in 1 .. Len(states) :
       states[i] # << >> =>
          \A n \in 0 .. (states[i][1].node_count - 1) :
             n \in ReachableWithin(states[i][1], MaxNodes)

\* C9: abp_core_reset(seed) leaves the instance as abp_core_init with the
\* instance's configuration and that seed builds it: not finished, no ticks
\* elapsed, the full time budget, docked at node 0 without a selection, with
\* starting resources, and the configuration kept.
ResetEqualsCreate ==
    last.op = "reset" =>
       /\ Post = abp_core_create(<<Pre.config>>, last.args[2])[1]
       /\ Post.config = Pre.config
       /\ Post.seed = last.args[2]
       /\ Post.needs_reset = 0
       /\ Post.ticks_elapsed = 0
       /\ Post.time_remaining = Pre.config.time_max
       /\ Post.current_node = 0
       /\ Post.selected_asteroid = -1
       /\ Post.fuel = 100000 /\ Post.hull = 10000 /\ Post.heat = 0
       /\ Post.tool_condition = 10000 /\ Post.alert = 0 /\ Post.credits = 0
       /\ \A c \in Commodities : Post.cargo[c] = 0
       /\ Post.total_spend = 0 /\ Post.scan_count = 0 /\ Post.mining_ticks = 0

\* A finished instance that had used fuel was reset.
ResetEqualsCreateSeen ==
    last.op = "reset" /\ Pre.needs_reset = 1 /\ Pre.fuel < 100000 /\ Pre.ticks_elapsed > 0

\* C10: abp_core_step_many gives every instance of the array the result and
\* the state a single abp_core_step with its own action gives it, and
\* abp_core_reset_many the state a single abp_core_reset with its own seed
\* gives it; NULL entries stay NULL and their result slots untouched.
BatchIndependence ==
    /\ last.op = "step_many" =>
          \A i \in 1 .. Len(states) :
             IF last.pre[i] = << >>
             THEN states[i] = << >> /\ results[i] = last.preres[i]
             ELSE LET r == abp_core_step(
                              last.pre[i][1],
                              IF last.args[1] = << >> THEN 6 ELSE last.args[1][1][i])
                  IN  states[i] = <<r.s>> /\ results[i] = <<r.out>>
    /\ last.op = "reset_many" =>
          \A i \in 1 .. Len(states) :
             IF last.pre[i] = << >>
             THEN states[i] = << >>
             ELSE states[i] =
                     <<abp_core_reset(
                          last.pre[i][1],
                          IF last.args[1] = << >> THEN last.pre[i][1].seed
                          ELSE last.args[1][1][i])>>

\* A batch whose first handle is NULL was stepped, the second instance with
\* an action other than the first entry of the action array.
BatchIndependenceSeen ==
    /\ last.op = "step_many"
    /\ last.pre[1] = << >>
    /\ last.pre[2] # << >>
    /\ last.args[1] # << >>
    /\ last.args[1][1][1] # last.args[1][1][2]
    /\ results[2] # << >>

\* The reward of the last step as abp_compute_reward gives it for the given
\* end-of-episode flags.
RewardWith(destroyed, stranded, done) ==
    abp_compute_reward(Post, AbpStepSnapshot(Pre), abp_est_cargo_value(Post),
                       IF Act >= 69 THEN 6 ELSE Act, Out.dt, Out.invalid_action,
                       destroyed, stranded, done)

RewardWithoutTerminal == RewardWith(0, 0, 0)

\* C11: a step with a non-travel action (code 6 and above) on a live instance
\* that is away from the station with fuel 0 leaves the fuel at 0 and returns
\* terminated=1 with survival 0 and the stranded penalty of 50 in the reward.
Stranding ==
    (LiveStep /\ Pre.fuel = 0 /\ Pre.current_node # 0 /\ Act >= 6) =>
       /\ Post.fuel = 0
       /\ Out.terminated = 1
       /\ Out.truncated = 0
       /\ Out.survival = 0
       /\ Out.reward =
             RewardWithoutTerminal - 5000000 - (IF Post.hull <= 0 THEN 10000000 ELSE 0)

\* A ship away from the station with an empty tank was stepped with a valid
\* non-travel action.
StrandingSeen ==
    /\ LiveStep /\ Pre.fuel = 0 /\ Pre.current_node # 0 /\ Act >= 6
    /\ Out.invalid_action = 0

\* The ship was at a station node before the last step.
Docked == Pre.node_type[Pre.current_node] = ABP_NODE_STATION

\* What the dispatcher, invalid-action block included, leaves of the state
\* before the last step.
AfterDispatch == DispatchWithInvalid(Pre, Act).s

\* The fields a station service works on.
TradeState(s) ==
    <<s.credits, s.total_spend, s.cargo, s.station_inventory, s.recent_sales, s.fuel,
      s.repair_kits, s.stabilizers, s.decoys, s.hull, s.tool_condition>>

\* C12: a live step with dock, a sell, a purchase or overhaul (codes 42..67)
\* taken away from the station is flagged invalid, and the dispatch leaves
\* credits, total spend, cargo, station inventory, recent sales, fuel, the
\* consumable counts, hull and tool condition as they were.
StationOnly ==
    (LiveStep /\ ~Docked /\ Act \in 42 .. 67) =>
       /\ Out.invalid_action = 1
       /\ TradeState(AfterDispatch) = TradeState(Pre)

\* A sell was attempted away from the station with that commodity in the hold.
StationOnlySeen ==
    /\ LiveStep /\ ~Docked /\ Act = 43 /\ Pre.cargo[0] > 0
    /\ Out.invalid_action = 1

\* Price, purchased resource and cap of the purchase actions 61..66.
PurchasePrice(action) ==
    IF action = 61 THEN 6000 ELSE IF action = 62 THEN 12000 ELSE IF action = 63 THEN 21000
    ELSE IF action = 64 THEN 15000 ELSE IF action = 65 THEN 17500 ELSE 11000

PurchasedResource(s, action) ==
    IF action <= 63 THEN s.fuel ELSE IF action = 64 THEN s.repair_kits
    ELSE IF action = 65 THEN s.stabilizers ELSE s.decoys

PurchaseCap(action) == IF action <= 63 THEN ABP_FUEL_MAX ELSE 12

\* The purchase of the last step failed: flagged invalid, nothing paid,
\* nothing received.
PurchaseFailed ==
    /\ Out.invalid_action = 1
    /\ AfterDispatch.credits = Pre.credits
    /\ AfterDispatch.total_spend = Pre.total_spend
    /\ PurchasedResource(AfterDispatch, Act) = PurchasedResource(Pre, Act)

\* The purchase of the last step succeeded and cost exactly the price.
PurchasePaid ==
    /\ Out.invalid_action = 0
    /\ AfterDispatch.credits = Pre.credits - PurchasePrice(Act)
    /\ AfterDispatch.total_spend = Pre.total_spend + PurchasePrice(Act)

\* C13: a purchase (codes 61..66) at the station fails whenever credits are
\* below the price or the purchased resource is at its cap (fuel 1000,
\* repair kits, stabilizers and decoys 12), and otherwise succeeds and
\* deducts exactly the price.
PurchaseFailure ==
    (LiveStep /\ Docked /\ Act \in 61 .. 66) =>
       IF \/ Pre.credits < PurchasePrice(Act)
          \/ PurchasedResource(Pre, Act) >= PurchaseCap(Act)
       THEN PurchaseFailed
       ELSE PurchasePaid

\* The same with the cap applying to the three supplies only: a fuel
\* purchase fails on credits alone.
PurchaseFailureSupplyCaps ==
    (LiveStep /\ Docked /\ Act \in 61 .. 66) =>
       IF \/ Pre.credits < PurchasePrice(Act)
          \/ Act >= 64 /\ PurchasedResource(Pre, Act) >= PurchaseCap(Act)
       THEN PurchaseFailed
       ELSE PurchasePaid

\* Commodity sold by the last step, and what the dispatch took from the hold.
SoldCommodity == (Act - 43) \div 3

SoldQty == Pre.cargo[SoldCommodity] - AfterDispatch.cargo[SoldCommodity]

\* C14: at the station, action 43+3c+b sells 25%, 50% or 100% of commodity c
\* only: a sell-100% step leaves cargo[c] at 0, no holding becomes negative,
\* the other holdings are unchanged, and the sold quantity is added to the
\* station inventory and the recent sales of commodity c.
Selling ==
    (LiveStep /\ Docked /\ Act \in 43 .. 60) =>
       /\ SoldQty = MulQ(Pre.cargo[SoldCommodity],
                         IF (Act - 43) % 3 = 0 THEN 25 ELSE IF (Act - 43) % 3 = 1 THEN 50 ELSE 100)
       /\ (Act - 43) % 3 = 2 => AfterDispatch.cargo[SoldCommodity] = 0 /\ Post.cargo[SoldCommodity] = 0
       /\ \A c \in Commodities : AfterDispatch.cargo[c] >= 0 /\ Post.cargo[c] >= 0
       /\ \A c \in Commodities \ {SoldCommodity} :
             AfterDispatch.cargo[c] = Pre.cargo[c] /\ Post.cargo[c] = Pre.cargo[c]
       /\ AfterDispatch.station_inventory[SoldCommodity] =
             Pre.station_inventory[SoldCommodity] + SoldQty
       /\ AfterDispatch.recent_sales[SoldCommodity] = Pre.recent_sales[SoldCommodity] + SoldQty
       /\ \A c \in Commodities \ {SoldCommodity} :
             /\ AfterDispatch.station_inventory[c] = Pre.station_inventory[c]
             /\ AfterDispatch.recent_sales[c] = Pre.recent_sales[c]

\* A quarter of a holding was sold at the station while another commodity
\* was in the hold.
SellingSeen ==
    /\ LiveStep /\ Docked /\ Act = 43 /\ SoldQty > 0 /\ Post.cargo[0] > 0
    /\ \E c \in Commodities \ {0} : Pre.cargo[c] > 0

\* The neighbor in the slot the last travel action named.
TravelTarget == IF Act \in Slots THEN Pre.neighbors[Pre.current_node][Act] ELSE -1

\* C15: a travel action (codes 0..5) is flagged invalid exactly when the
\* neighbor slot it names is empty, whatever the fuel; when invalid, the
\* dispatch leaves the current node, the fuel and the selected asteroid
\* unchanged and dt is 1.
TravelValidity ==
    (LiveStep /\ Act \in 0 .. 5) =>
       /\ Out.invalid_action = 1 <=> TravelTarget < 0
       /\ Out.invalid_action = 1 =>
             /\ AfterDispatch.current_node = Pre.current_node
             /\ AfterDispatch.fuel = Pre.fuel
             /\ AfterDispatch.selected_asteroid = Pre.selected_asteroid
             /\ Post.current_node = Pre.current_node
             /\ Out.dt = 1
       /\ Out.invalid_action = 0 => AfterDispatch.current_node = TravelTarget

\* A travel through an empty slot was attempted with an asteroid selected,
\* and a travel was valid although the fuel did not cover the edge.
TravelValiditySeen ==
    /\ LiveStep /\ Act \in 0 .. 5
    /\ \/ Out.invalid_action = 1 /\ Pre.selected_asteroid >= 0
       \/ Out.invalid_action = 0 /\ Pre.fuel < Pre.edge_fuel_cost[Pre.current_node][Act]

\* The asteroid the last select action named, and whether it can be selected.
SelectTarget == Act - 12

Selectable ==
    /\ SelectTarget \in Asteroids
    /\ Pre.ast_valid[Pre.current_node][SelectTarget] # 0
    /\ Pre.depletion[Pre.current_node][SelectTarget] < 100

\* C16: action 12+k is valid exactly when slot k at the current node holds a
\* valid asteroid with depletion below 1, and then selects k; otherwise the
\* step is flagged invalid and the selection stays as it was.
AsteroidSelection ==
    (LiveStep /\ Act \in 12 .. 27) =>
       /\ Out.invalid_action = 0 <=> Selectable
       /\ AfterDispatch.selected_asteroid =
             IF Selectable THEN SelectTarget ELSE Pre.selected_asteroid
       /\ Post.selected_asteroid = AfterDispatch.selected_asteroid

\* A select failed with an earlier selection in place, on a fully depleted
\* asteroid or on an empty slot.
AsteroidSelectionSeen ==
    /\ LiveStep /\ Act \in 12 .. 27 /\ Out.invalid_action = 1
    /\ \/ Pre.selected_asteroid >= 0
       \/ SelectTarget \in Asteroids /\ Pre.depletion[Pre.current_node][SelectTarget] >= 100

\* C17: action 68 on a live instance returns terminated=1, truncated=0,
\* invalid_action=0 and dt=1, and its reward holds neither the stranded nor
\* the destroyed penalty.
VoluntaryEnd ==
    (LiveStep /\ Act = 68) =>
       /\ Out.terminated = 1 /\ Out.truncated = 0
       /\ Out.invalid_action = 0 /\ Out.dt = 1
       /\ Out.reward = RewardWith(0, 0, 1)

\* The same, with the penalties the end-of-episode evaluation adds when the
\* tick of that step destroys or strands the ship.
VoluntaryEndUnlessLost ==
    (LiveStep /\ Act = 68) =>
       /\ Out.terminated = 1 /\ Out.truncated = 0
       /\ Out.invalid_action = 0 /\ Out.dt = 1
       /\ Out.reward =
             IF Post.hull <= 0 \/ (Post.fuel <= 0 /\ ~abp_is_at_station(Post))
             THEN RewardWith(IF Post.hull <= 0 THEN 1 ELSE 0,
                             IF Post.fuel <= 0 /\ ~abp_is_at_station(Post) THEN 1 ELSE 0, 1)
             ELSE RewardWith(0, 0, 1)

\* C18: abp_core_step answers every action byte with a result; the resolved
\* action in it is the attempted code for codes 0..68, also when the step is
\* invalid, 6 for every code from 69 on, which is flagged invalid too, and -1
\* for a short-circuited step on a finished instance.
ResolvedAction ==
    LastStep =>
       /\ results[Inst] # << >>
       /\ Out.action =
             IF Pre.needs_reset # 0 THEN -1 ELSE IF Act <= 68 THEN Act ELSE 6
       /\ Act >= 69 => Out.invalid_action = 1

\* A code above 68 was absorbed on a live instance, and a code within 0..68
\* was reported although the step was invalid.
ResolvedActionSeen ==
    /\ LiveStep /\ Out.invalid_action = 1
    /\ \/ Act = 255 /\ Out.action = 6
       \/ Act = 28 /\ Out.action = 28

\* The configuration the documentation promises for a caller's configuration:
\* time budget 20000 and invalid-action penalty 0.01 wherever the caller gives
\* none or a value <= 0.
PromisedConfig(config) ==
    [time_max |-> IF config = << >> \/ config[1].time_max <= 0 THEN 2000000
                  ELSE config[1].time_max,
     invalid_action_penalty |->
        IF config = << >> \/ config[1].invalid_action_penalty <= 0 THEN 1
        ELSE config[1].invalid_action_penalty]

\* C19: creation replaces each configuration value that is <= 0 by its
\* default (time budget 20000, invalid-action penalty 0.01) independently of
\* the other, NULL gives both defaults, the initial time_remaining is the
\* time budget, and every step and every reset leaves the configuration as
\* it was (a reset starts again from the same time budget).
ConfigFallback ==
    /\ last.op = "create" =>
          /\ states[1][1].config = PromisedConfig(last.args[1])
          /\ states[1][1].time_remaining = states[1][1].config.time_max
    /\ last.op \in {"step", "reset"} => Post.config = Pre.config
    /\ last.op = "reset" => Post.time_remaining = Pre.config.time_max

\* An instance created with a time budget of its own and a penalty <= 0 was
\* reset after a step had used some of the budget.
ConfigFallbackSeen ==
    /\ last.op = "reset"
    /\ Post.config = [time_max |-> 300, invalid_action_penalty |-> 1]
    /\ Pre.time_remaining < 300

\* comp is a composition: no component is negative and the components sum to
\* 1, up to the one unit of the resolution that each division by the sum may
\* drop.
OnSimplex(comp) ==
    /\ \A c \in Commodities : comp[c] >= 0
    /\ SumComm(comp) <= 100
    /\ SumComm(comp) > 100 - ABP_N_COMMODITIES

\* C20: in every state, for every valid asteroid, the true composition and
\* the composition estimate have no negative component and sum to 1; no step
\* changes a true composition.
SimplexInvariant ==
    /\ \A i \in 1 .. Len(states) :
          states[i] # << >> =>
             \A node \in Nodes, a \in Asteroids :
                states[i][1].ast_valid[node][a] # 0 =>
                   /\ OnSimplex(states[i][1].true_comp[node][a])
                   /\ OnSimplex(states[i][1].comp_est[node][a])
    /\ LastStep => Post.true_comp = Pre.true_comp

\* A focused or deep scan updated the composition estimate of the selected
\* asteroid.
SimplexInvariantSeen ==
    /\ LiveStep /\ Act \in {9, 10} /\ Out.invalid_action = 0
    /\ Post.comp_est # Pre.comp_est

\* The trace record at position k ended an episode.
EndedAt(k) == runner.trace[k].terminated # 0 \/ runner.trace[k].truncated # 0

\* The instance the runner would hold had it been created for the current
\* episode.
EpisodeStart == abp_core_init(<< >>, runner.seed + runner.episode_index)

\* C21: the trace runner resets the engine with seed + episode index right
\* after a step that returned terminated or truncated, so the instance is
\* live before every step, no trace record is a short-circuit record (dt 0,
\* resolved action -1), the episode index counts the records that ended an
\* episode, and episode k runs on the world generated from seed + k.
AutoReset ==
    /\ states[1][1].needs_reset = 0
    /\ \A k \in 1 .. Len(runner.trace) :
          /\ runner.trace[k].dt # 0
          /\ runner.trace[k].resolved_action # -1
          /\ runner.trace[k].t = k - 1
    /\ runner.episode_index = Cardinality({k \in 1 .. Len(runner.trace) : EndedAt(k)})
    /\ states[1][1].seed = runner.seed + runner.episode_index
    /\ states[1][1].node_count = EpisodeStart.node_count
    /\ states[1][1].neighbors = EpisodeStart.neighbors
    /\ states[1][1].true_comp = EpisodeStart.true_comp
    /\ (runner.trace # << >> /\ EndedAt(Len(runner.trace))) => states[1][1] = EpisodeStart

\* The runner is in its third episode and has stepped it.
AutoResetSeen ==
    /\ runner.episode_index = 2
    /\ Len(runner.trace) = 3
    /\ ~EndedAt(3)
    /\ states[1][1] # EpisodeStart

\* C22: a valid travel through slot s puts the ship on the node stored in
\* slot s of the node it left, clears the asteroid selection, and returns dt
\* equal to the travel time of that edge, a value in 1..8; the ship arrives
\* also when the fuel does not cover the edge, and the fuel is then 0.
ValidTravel ==
    (LiveStep /\ Act \in 0 .. 5 /\ Out.invalid_action = 0) =>
       /\ TravelTarget >= 0
       /\ Post.current_node = TravelTarget
       /\ Post.selected_asteroid = -1
       /\ Out.dt = Pre.edge_travel_time[Pre.current_node][Act]
       /\ Out.dt \in 1 .. 8
       /\ Post.fuel >= 0
       /\ Pre.fuel < Pre.edge_fuel_cost[Pre.current_node][Act] => Post.fuel = 0

\* The ship travelled to another node with an asteroid selected, and it
\* arrived on an edge that its fuel did not cover.
ValidTravelSeen ==
    /\ LiveStep /\ Act \in 0 .. 5 /\ Out.invalid_action = 0
    /\ Post.current_node # Pre.current_node
    /\ \/ Pre.selected_asteroid >= 0
       \/ Pre.fuel < Pre.edge_fuel_cost[Pre.current_node][Act]

\* The least number of hops along neighbor slots from the station to node n
\* of world s, for a node that can be reached.
HopDistance(s, n) ==
    CHOOSE k \in 0 .. MaxNodes :
       /\ n \in ReachableWithin(s, k)
       /\ k = 0 \/ n \notin ReachableWithin(s, k - 1)

\* C23: for every node below node_count that can be reached from the station
\* the cached steps-to-station value is its hop distance, capped at the last
\* node index; every other index holds that saturation value; no step changes
\* the cache.
ReachabilityIndex ==
    /\ \A n \in Nodes :
          states[1][1].steps_to_station[n] =
             IF n < states[1][1].node_count /\ n \in ReachableWithin(states[1][1], MaxNodes)
             THEN fminf(HopDistance(states[1][1], n), MaxNodes - 1)
             ELSE MaxNodes - 1
    /\ LastStep => Post.steps_to_station = Pre.steps_to_station

\* After a travel step, a world with a node two hops from the station.
ReachabilityIndexSeen ==
    /\ LastStep /\ Post.current_node # Pre.current_node
    /\ \E n \in Nodes : n < Post.node_count /\ Post.steps_to_station[n] = 2

\* After a step, a world with a node below node_count that cannot be reached
\* from the station.
UnreachableNodeSeen ==
    /\ LastStep
    /\ \E n \in Nodes : n < Post.node_count /\ n \notin ReachableWithin(Post, MaxNodes)

\* The asteroid selected before the last step is fully depleted.
SelectionDepleted ==
    /\ Pre.selected_asteroid \in Asteroids
    /\ Pre.depletion[Pre.current_node][Pre.selected_asteroid] >= 100

\* C24: no step lowers the depletion of an asteroid or takes it out of
\* [0,1], so a depletion of 1 stays 1 until a reset; a select of a fully
\* depleted asteroid, and a mine (28..30), focused or deep scan (9, 10) or
\* stabilizer (31) with a fully depleted asteroid selected, is flagged invalid.
DepletionTerminal ==
    /\ LastStep =>
          \A node \in Nodes, a \in Asteroids :
             /\ Post.depletion[node][a] >= Pre.depletion[node][a]
             /\ Post.depletion[node][a] \in 0 .. 100
    /\ (LiveStep /\ Act \in 12 .. 27 /\ SelectTarget \in Asteroids
          /\ Pre.depletion[Pre.current_node][SelectTarget] >= 100) =>
          Out.invalid_action = 1
    /\ (LiveStep /\ Act \in {9, 10, 28, 29, 30, 31} /\ SelectionDepleted) =>
          Out.invalid_action = 1

\* A mine was attempted with the selected asteroid fully depleted.
DepletionTerminalSeen ==
    /\ LiveStep /\ Act = 30 /\ SelectionDepleted
    /\ Out.invalid_action = 1

\* The estimate record of asteroid a at node n in state s.
Estimates(s, n, a) == <<s.comp_est[n][a], s.stability_est[n][a], s.scan_conf[n][a]>>

\* C25: a step changes the composition estimate, stability estimate or scan
\* confidence of an asteroid only if it is a wide scan (8) at the asteroid's
\* node or a valid focused or deep scan (9, 10) with that asteroid selected.
EstimatesOnlyByScans ==
    LastStep =>
       \A n \in Nodes, a \in Asteroids :
          Estimates(Post, n, a) # Estimates(Pre, n, a) =>
             /\ LiveStep
             /\ n = Pre.current_node
             /\ \/ Act = 8
                \/ Act \in {9, 10} /\ Out.invalid_action = 0 /\ a = Pre.selected_asteroid

\* A focused or deep scan changed the estimates of the selected asteroid
\* while another asteroid at the same node kept its own.
EstimatesOnlyByScansSeen ==
    /\ LiveStep /\ Act \in {9, 10} /\ Out.invalid_action = 0
    /\ Estimates(Post, Pre.current_node, Pre.selected_asteroid)
          # Estimates(Pre, Pre.current_node, Pre.selected_asteroid)
    /\ \E a \in Asteroids \ {Pre.selected_asteroid} : Pre.ast_valid[Pre.current_node][a] # 0

\* C26: a wide scan (action 8) on a live instance is not flagged invalid,
\* returns dt = 3, adds 1 to the scan count and raises the scan confidence of
\* every valid asteroid at the current node by 0.10, capped at 1; no step
\* lowers a scan confidence or takes it out of [0,1].
WideScan ==
    /\ (LiveStep /\ Act = 8) =>
          /\ Out.invalid_action = 0
          /\ Out.dt = 3
          /\ Post.scan_count = Pre.scan_count + 1
          /\ Out.scan_count = Post.scan_count
          /\ \A a \in Asteroids :
                Pre.ast_valid[Pre.current_node][a] # 0 =>
                   Post.scan_conf[Pre.current_node][a] =
                      fminf(100, Pre.scan_conf[Pre.current_node][a] + 10)
    /\ LastStep =>
          \A n \in Nodes, a \in Asteroids :
             /\ Post.scan_conf[n][a] >= Pre.scan_conf[n][a]
             /\ Post.scan_conf[n][a] \in 0 .. 100

\* A wide scan was made at a node with two valid asteroids.
WideScanSeen ==
    /\ LiveStep /\ Act = 8
    /\ \A a \in Asteroids : Pre.ast_valid[Pre.current_node][a] # 0
    /\ Post.scan_conf # Pre.scan_conf

\* The ship is at a station node after the last step.
DockedAfter == Post.node_type[Post.current_node] = ABP_NODE_STATION

\* C27: a step that ends with the ship at the station, a travel that arrives
\* there included, does not add to the pirate-encounter counter or to the
\* value lost to pirates, takes no decoy, and removes no cargo beyond what
\* the action itself did.
NoPiratesAtStation ==
    (LastStep /\ DockedAfter) =>
       /\ Post.pirate_encounters = Pre.pirate_encounters
       /\ Post.value_lost_to_pirates = Pre.value_lost_to_pirates
       /\ Post.decoys >= Pre.decoys
       /\ Out.pirate_encounters = Pre.pirate_encounters
       /\ Out.value_lost_to_pirates = Pre.value_lost_to_pirates
       /\ LiveStep /\ Act <= 5 => Post.cargo = Pre.cargo
       /\ LiveStep /\ Act > 5 => Post.cargo = AfterDispatch.cargo

\* The ship arrived at the station with cargo in the hold and a decoy.
NoPiratesAtStationSeen ==
    /\ LiveStep /\ Act <= 5 /\ ~Docked /\ DockedAfter
    /\ Pre.decoys > 0
    /\ \E c \in Commodities : Pre.cargo[c] > 0

\* The actions stepped on the instance before the last step.
Before == SubSeq(hist[Inst], 1, Len(hist[Inst]) - 1)

\* The position in h of the latest stabilizer deployment, 0 if there is none.
LastDeployment(h) ==
    IF \A j \in 1 .. Len(h) : h[j] # 31 THEN 0
    ELSE CHOOSE j \in 1 .. Len(h) : h[j] = 31 /\ \A k \in (j + 1) .. Len(h) : h[k] # 31

\* The last step mined an asteroid whose slot carried a stabilize buff.
MinedStabilized ==
    /\ LiveStep /\ Act \in 28 .. 30
    /\ Pre.selected_asteroid \in Asteroids
    /\ Pre.ast_valid[Pre.current_node][Pre.selected_asteroid] # 0
    /\ Pre.depletion[Pre.current_node][Pre.selected_asteroid] < 100
    /\ Pre.stabilize_buff_ticks[Pre.selected_asteroid] > 0

\* The instance got to the state before the last step by the actions in
\* Before from some creation, and the latest stabilizer in them was deployed
\* at another node than the one the ship is mining at.
DeployedElsewhere ==
    \E config \in Configs, seed \in Seeds :
       \E d \in {LastDeployment(Before)} :
          /\ d > 0
          /\ \E at \in {Warm(config, seed, [acts |-> Before, n |-> d])} :
                /\ ~at.stop
                /\ at.out[1].invalid_action = 0
                /\ at.s.current_node # Pre.current_node
          /\ \E now \in {Warm(config, seed, [acts |-> Before, n |-> Len(Before)])} :
                ~now.stop /\ now.s = Pre

\* C28: a stabilizer covers the asteroid it was deployed on only: when the
\* mining of an asteroid is treated as stabilized, the stabilizer was
\* deployed at the node the ship is mining at, and not on the same slot
\* index of another node.
StabilizeBuffPerAsteroid == MinedStabilized => ~DeployedElsewhere

\* Mining was treated as stabilized right after a deployment at the same node.
StabilizeBuffSeen ==
    MinedStabilized /\ Before # << >> /\ Before[Len(Before)] = 31 /\ PreOut.invalid_action = 0

\* The selection before the last step is present and not fully depleted.
SelectionValid ==
    /\ Pre.selected_asteroid \in Asteroids
    /\ Pre.ast_valid[Pre.current_node][Pre.selected_asteroid] # 0
    /\ Pre.depletion[Pre.current_node][Pre.selected_asteroid] < 100

\* C29: action 31 is valid exactly when the selection is valid and a
\* stabilizer charge is left; valid, it takes one charge, sets the selected
\* asteroid's buff counter to 6 (4 are left after the 2 ticks of the step)
\* and returns dt=2; invalid, it leaves the charges and every buff counter to
\* the dispatch as they were and returns dt=1.
StabilizerDeployment ==
    (LiveStep /\ Act = 31) =>
       /\ Out.invalid_action = 0 <=> (SelectionValid /\ Pre.stabilizers > 0)
       /\ Out.invalid_action = 0 =>
             /\ Post.stabilizers = Pre.stabilizers - 1
             /\ AfterDispatch.stabilizers = Pre.stabilizers - 1
             /\ AfterDispatch.stabilize_buff_ticks =
                   [Pre.stabilize_buff_ticks EXCEPT ![Pre.selected_asteroid] = 6]
             /\ Post.stabilize_buff_ticks[Pre.selected_asteroid] = 4
             /\ Out.dt = 2
       /\ Out.invalid_action = 1 =>
             /\ Post.stabilizers = Pre.stabilizers
             /\ AfterDispatch.stabilizers = Pre.stabilizers
             /\ AfterDispatch.stabilize_buff_ticks = Pre.stabilize_buff_ticks
             /\ Out.dt = 1

\* A stabilizer was deployed on a valid selection.
StabilizerDeploymentSeen ==
    LiveStep /\ Act = 31 /\ SelectionValid /\ Pre.stabilizers > 0 /\ Out.invalid_action = 0

\* A deployment was refused for want of a charge, the selection being valid.
StabilizerRefusedSeen ==
    LiveStep /\ Act = 31 /\ SelectionValid /\ Pre.stabilizers = 0 /\ Out.invalid_action = 1

\* C30: tool maintenance (34) and hull patch (35) are flagged invalid exactly
\* when no repair kit is left, and then the dispatch leaves kits, tool
\* condition and hull as they were; valid, they take exactly one kit, return
\* dt=2 and raise tool condition by 25 (hull by 20), capped at 100, the
\* dispatch leaving the other of the two as it was.
RepairKitActions ==
    (LiveStep /\ Act \in {34, 35}) =>
       /\ Out.invalid_action = 1 <=> Pre.repair_kits = 0
       /\ Out.invalid_action = 1 =>
             /\ Post.repair_kits = Pre.repair_kits
             /\ AfterDispatch.repair_kits = Pre.repair_kits
             /\ AfterDispatch.tool_condition = Pre.tool_condition
             /\ AfterDispatch.hull = Pre.hull
       /\ Out.invalid_action = 0 =>
             /\ Post.repair_kits = Pre.repair_kits - 1
             /\ AfterDispatch.repair_kits = Pre.repair_kits - 1
             /\ Out.dt = 2
             /\ Act = 34 =>
                   /\ AfterDispatch.tool_condition
                         = (IF Pre.tool_condition + 2500 > 10000 THEN 10000
                            ELSE Pre.tool_condition + 2500)
                   /\ AfterDispatch.hull = Pre.hull
             /\ Act = 35 =>
                   /\ AfterDispatch.hull
                         = (IF Pre.hull + 2000 > 10000 THEN 10000 ELSE Pre.hull + 2000)
                   /\ AfterDispatch.tool_condition = Pre.tool_condition

\* A hull patch on a damaged hull took a kit and stayed under the cap.
RepairKitActionsSeen ==
    /\ LiveStep /\ Act = 35 /\ Out.invalid_action = 0
    /\ Pre.repair_kits > 0 /\ Pre.hull < 8000 /\ AfterDispatch.hull = Pre.hull + 2000

\* A repair-kit action was refused because no kit was left.
RepairKitRefusedSeen ==
    LiveStep /\ Act \in {34, 35} /\ Pre.repair_kits = 0 /\ Out.invalid_action = 1

\* Tool maintenance on a worn tool was capped at the maximum.
ToolMaintenanceCappedSeen ==
    /\ LiveStep /\ Act = 34 /\ Out.invalid_action = 0
    /\ Pre.tool_condition < 10000 /\ Pre.tool_condition > 7500
    /\ AfterDispatch.tool_condition = 10000

\* The state before the last step, charged the fuel and alert of the scan
\* the step asked for.
ScanCharged ==
    [Pre EXCEPT !.fuel = @ - (IF Act = 9 THEN 400 ELSE 800),
                !.alert = @ + (IF Act = 9 THEN 300 ELSE 600)]

\* C31: a focused (9) or deep (10) scan without a valid selection is flagged
\* invalid with dt=1 and leaves the estimates and the scan count alone, but
\* the scan's fuel (4, 8) and alert (3, 6) are charged before the hold
\* effect; every other action in 0..68 flagged invalid does to the state
\* what a hold does, and nothing else.
PartialMutationOnFailedScan ==
    /\ (LiveStep /\ Act \in {9, 10} /\ ~SelectionValid) =>
          /\ Out.invalid_action = 1
          /\ Out.dt = 1
          /\ \A n \in Nodes, a \in Asteroids : Estimates(Post, n, a) = Estimates(Pre, n, a)
          /\ Post.scan_count = Pre.scan_count
          /\ AfterDispatch = abp_apply_hold(ScanCharged)
          /\ Post = abp_core_step(ScanCharged, 6).s
    /\ (LiveStep /\ Act \in (0 .. 68) \ {9, 10} /\ Out.invalid_action = 1) =>
          /\ AfterDispatch = abp_apply_hold(Pre)
          /\ Post = abp_core_step(Pre, 6).s

\* A focused or deep scan failed away from the station with fuel in the tank.
PartialMutationOnFailedScanSeen ==
    /\ LiveStep /\ Act \in {9, 10} /\ ~SelectionValid /\ ~Docked
    /\ Out.invalid_action = 1
    /\ AfterDispatch.fuel < Pre.fuel

\* An action other than a scan failed its precondition.
OtherActionFailedSeen ==
    LiveStep /\ Act \in {0, 1, 5, 12, 13, 27, 28, 30, 31, 42, 43, 61, 67} /\ Out.invalid_action = 1

\* The last step left the ship without fuel away from the station.
EndedStranded == Post.fuel <= 0 /\ ~DockedAfter

\* The last step left the ship without hull.
EndedDestroyed == Post.hull <= 0

\* The last step reported the end of the episode.
EndedEpisode == Out.terminated = 1 \/ Out.truncated = 1

\* The reward of the last step without its terminal and invalid-action terms.
RewardOfTheTick ==
    abp_compute_reward(Post, AbpStepSnapshot(Pre), abp_est_cargo_value(Post),
                       IF Act >= 69 THEN 6 ELSE Act, Out.dt, 0, 0, 0, 0)

\* C32: the reward of a live step has the stranded penalty (50) exactly when
\* the step ends stranded, the destroyed penalty (100) exactly when it ends
\* destroyed, the bonus on the final credits exactly when the step ends the
\* episode with neither, no terminal term on a step that does not end the
\* episode, and the invalid-action penalty exactly when invalid_action=1; a
\* step on a finished instance has reward 0.
TerminalRewardTerms ==
    /\ LiveStep =>
          /\ Out.reward
                = RewardOfTheTick
                  + (IF EndedStranded THEN -5000000 ELSE 0)
                  + (IF EndedDestroyed THEN -10000000 ELSE 0)
                  + (IF EndedEpisode /\ ~EndedStranded /\ ~EndedDestroyed
                     THEN (2 * Post.credits) \div 1000 ELSE 0)
                  + (IF Out.invalid_action = 1
                     THEN 0 - 1000 * Post.config.invalid_action_penalty ELSE 0)
          /\ (EndedStranded \/ EndedDestroyed) => EndedEpisode
    /\ (LastStep /\ ~LiveStep) => Out.reward = 0

\* A step ended the episode cleanly with credits to pay the bonus on.
TerminalRewardTermsSeen ==
    /\ LiveStep /\ EndedEpisode /\ ~EndedStranded /\ ~EndedDestroyed
    /\ (2 * Post.credits) \div 1000 > 0

\* A step ended stranded with credits in the account.
EndedStrandedSeen == LiveStep /\ EndedStranded /\ ~EndedDestroyed /\ Post.credits > 0

\* A step ended destroyed.
EndedDestroyedSeen == LiveStep /\ EndedDestroyed

\* A step was flagged invalid and the episode went on.
InvalidPenaltySeen == LiveStep /\ ~EndedEpisode /\ Out.invalid_action = 1

\* A step ran out of time.
TruncatedSeen == LiveStep /\ Out.truncated = 1

\* The number of valid asteroid slots of node n in world s.
ValidAsteroids(s, n) == Cardinality({a \in Asteroids : s.ast_valid[n][a] # 0})

\* The structure of a generated world, with the model's scaled capacities in
\* the place of 8..32 nodes and 5..16 asteroids.
WorldStructure(s) ==
    /\ s.node_count \in MinNodes .. MaxNodes
    /\ \A n \in Nodes : s.node_type[n] = ABP_NODE_STATION <=> n = 0
    /\ ValidAsteroids(s, 0) = 0
    /\ \A n \in Nodes :
          (n > 0 /\ n < s.node_count) =>
             /\ ValidAsteroids(s, n) \in MinAsteroids .. MaxAsteroids
             /\ \A a \in Asteroids : s.ast_valid[n][a] # 0 <=> a < ValidAsteroids(s, n)
    /\ \A n \in Nodes :
          n >= s.node_count =>
             /\ ValidAsteroids(s, n) = 0
             /\ \A t \in Slots : s.neighbors[n][t] = -1
    /\ \A n \in Nodes, t \in Slots :
          s.neighbors[n][t] >= 0 => s.edge_travel_time[n][t] \in 1 .. 8
    /\ s.current_node < s.node_count

\* C33: every generated world has its node count within the bounds, node 0
\* as its only station, no asteroid at the station, a bounded prefix of
\* valid asteroid slots at every other node below node_count, nothing at the
\* indices from node_count on, edge travel times in 1..8, and the ship at a
\* node below node_count, after create, reset and every step.
WorldStructureInvariant == WorldStructure(states[1][1])

\* After a travel, a world with fewer nodes than the capacity, a node with
\* the least and a node with the greatest number of asteroids.
WorldStructureInvariantSeen ==
    /\ LastStep /\ Post.current_node # Pre.current_node
    /\ Post.node_count < MaxNodes
    /\ \E n, m \in 1 .. (Post.node_count - 1) :
          ValidAsteroids(Post, n) = MinAsteroids /\ ValidAsteroids(Post, m) = MaxAsteroids

\* A world with an edge of the longest travel time.
TravelTimeRangeSeen ==
    \E n \in Nodes, t \in Slots :
       states[1][1].neighbors[n][t] >= 0 /\ states[1][1].edge_travel_time[n][t] = 8

\* The state the last step leaves when global dynamics run once, after the
\* dispatch and with the dt it produced.
DynamicsAfterDispatch ==
    PackObs([abp_apply_global_dynamics(AfterDispatch, DispatchWithInvalid(Pre, Act).dt)
               EXCEPT !.ticks_elapsed = @ + DispatchWithInvalid(Pre, Act).dt])

\* The last step sold a positive quantity at the station.
SoldSomething == LiveStep /\ Docked /\ Act \in 43 .. 60 /\ SoldQty > 0

\* C34: in a live step global dynamics run once, after the dispatch and with
\* the dt of the action, and ticks_elapsed grows by that dt; so a sale is paid
\* at the market price the previous step left (the one in the last
\* observation), and the market update of the same step works on the station
\* inventory and recent sales with the sale already added.
DispatchThenDynamics ==
    /\ LiveStep =>
          /\ Out.dt = DispatchWithInvalid(Pre, Act).dt
          /\ Post.ticks_elapsed = Pre.ticks_elapsed + Out.dt
          /\ Post.time_remaining = fmaxf(0, Pre.time_remaining - 100 * Out.dt)
          /\ [Post EXCEPT !.needs_reset = 0] = DynamicsAfterDispatch
    /\ SoldSomething =>
          /\ Pre.obs_buffer = PackObs(Pre).obs_buffer
          /\ Post.credits - Pre.credits =
                MulQ(SoldQty,
                     MulQ(Pre.market_price[SoldCommodity],
                          100 - abp_slippage(SoldQty, Pre.station_inventory[SoldCommodity])))
          /\ Post.market_prev_price = Pre.market_price
          /\ Post.station_inventory[SoldCommodity] =
                fmaxf(((Pre.station_inventory[SoldCommodity] + SoldQty) * 998) \div 1000, 0)
          /\ Post.recent_sales[SoldCommodity] =
                MulQ(Pre.recent_sales[SoldCommodity] + SoldQty,
                     expf(0 - DivQ(Out.dt * 100, 1400)))
          /\ Post.market_price = abp_update_market(AfterDispatch, Out.dt).market_price

\* A sale whose quantity moved the price the same step's market update set.
DispatchThenDynamicsSeen ==
    /\ SoldSomething
    /\ Post.market_price[SoldCommodity]
          # abp_update_market(Pre, Out.dt).market_price[SoldCommodity]
    /\ Post.market_price[SoldCommodity] # Pre.market_price[SoldCommodity]

\* Instance state s is not destroyed, not stranded and not out of time.
Sound(s) ==
    /\ s.hull > 0
    /\ s.time_remaining > 0
    /\ s.fuel > 0 \/ s.node_type[s.current_node] = ABP_NODE_STATION

\* C35: an instance that is not flagged finished (after create, after reset,
\* after a step that returned neither terminated nor truncated) has hull > 0,
\* time_remaining > 0, and fuel > 0 or the ship at the station; and a step
\* that leaves the flag clear returned neither terminated nor truncated.
LiveInstance ==
    /\ \A i \in 1 .. Len(states) :
          (states[i] # << >> /\ states[i][1].needs_reset = 0) => Sound(states[i][1])
    /\ LastStep => (Post.needs_reset = 0 <=> (Out.terminated = 0 /\ Out.truncated = 0))

\* A step left the instance live with the hull nearly gone, or with the tank
\* nearly empty away from the station.
LiveInstanceSeen ==
    /\ LiveStep /\ Post.needs_reset = 0
    /\ Post.hull < 100 \/ (Post.fuel < 2000 /\ ~DockedAfter)

\* C36: every live step returns a dt in 1..8 and a short-circuited step dt=0,
\* so time_remaining goes down on every live step and equals
\* max(0, time budget - ticks_elapsed), and a live instance has used less
\* than its budget: the episode ends after at most that number of live steps.
EpisodeAlwaysEnds ==
    /\ LiveStep =>
          /\ Out.dt \in 1 .. 8
          /\ Post.time_remaining < Pre.time_remaining
          /\ Post.time_remaining = fmaxf(0, Post.config.time_max - 100 * Post.ticks_elapsed)
          /\ Post.needs_reset = 0 => 100 * Post.ticks_elapsed < Post.config.time_max
    /\ (LastStep /\ ~LiveStep) => Out.dt = 0

\* The same for time budgets that the floats count down exactly.
EpisodeEndsWithinSmallBudget ==
    (LastStep /\ Pre.config.time_max <= (2 ^ MantissaBits) * 100) => EpisodeAlwaysEnds

\* A step ran the time budget out, and a travel took more than one tick.
EpisodeEndsSeen == LiveStep /\ Out.truncated = 1 /\ Post.time_remaining = 0

\* The price of the purchase or overhaul the last step asked for.
ServicePrice == IF Act = 67 THEN 28000 ELSE PurchasePrice(Act)

\* The last step was a purchase or an overhaul at the station that went
\* through.
ServiceBought == LiveStep /\ Docked /\ Act \in 61 .. 67 /\ Out.invalid_action = 0

\* C37: credits are never negative; a step lowers them only by a purchase or
\* overhaul that went through, which found at least its price in the account
\* and takes exactly that; a step raises them only by a sale of a positive
\* quantity at the station; total spend never goes down and grows by exactly
\* the price of each purchase or overhaul that went through.
CreditsNeverNegative ==
    /\ \A i \in 1 .. Len(states) : states[i] # << >> => states[i][1].credits >= 0
    /\ LastStep =>
          /\ Post.credits < Pre.credits =>
                /\ ServiceBought
                /\ Pre.credits >= ServicePrice
                /\ Post.credits = Pre.credits - ServicePrice
          /\ Post.credits > Pre.credits => SoldSomething
          /\ Post.total_spend >= Pre.total_spend
          /\ Post.total_spend - Pre.total_spend = (IF ServiceBought THEN ServicePrice ELSE 0)
          /\ Out.credits = Post.credits

\* A purchase went through and left less than its price in the account.
CreditsNeverNegativeSeen ==
    /\ ServiceBought
    /\ Post.credits = Pre.credits - ServicePrice
    /\ Post.credits < ServicePrice

\* An overhaul went through.
OverhaulSeen == ServiceBought /\ Act = 67

\* A purchase was refused for want of credits, with some credits in the account.
RefusedForCreditsSeen ==
    /\ LiveStep /\ Docked /\ Act \in 61 .. 67 /\ Out.invalid_action = 1
    /\ Pre.credits > 0 /\ Pre.credits < ServicePrice

\* The selection of instance state s is none or a valid slot of its node.
SelectionAtNode(s) ==
    \/ s.selected_asteroid = -1
    \/ /\ s.selected_asteroid \in Asteroids
       /\ s.ast_valid[s.current_node][s.selected_asteroid] # 0

\* C38: in every state the selected asteroid is none (-1) or a valid asteroid
\* slot of the current node; it is none after create, after reset and after
\* every valid travel, hence always none at the station, where every mine,
\* focused or deep scan and stabilizer action is flagged invalid.
SelectionAtCurrentNode ==
    /\ \A i \in 1 .. Len(states) :
          states[i] # << >> =>
             /\ SelectionAtNode(states[i][1])
             /\ states[i][1].node_type[states[i][1].current_node] = ABP_NODE_STATION
                   => states[i][1].selected_asteroid = -1
    /\ last.op \in {"create", "reset"} =>
          \A i \in 1 .. Len(states) :
             (states[i] # << >> /\ (last.op = "create" \/ i = Inst))
                => states[i][1].selected_asteroid = -1
    /\ (LiveStep /\ Act <= 5 /\ Out.invalid_action = 0) => Post.selected_asteroid = -1
    /\ (LiveStep /\ Docked /\ Act \in {9, 10, 28, 29, 30, 31}) => Out.invalid_action = 1

\* A valid travel dropped a selection.
SelectionAtCurrentNodeSeen ==
    /\ LiveStep /\ Act <= 5 /\ Out.invalid_action = 0
    /\ Pre.selected_asteroid \in Asteroids
    /\ Post.current_node # Pre.current_node
    /\ Post.selected_asteroid = -1

\* A select at the station was refused, and a mine there was flagged invalid.
SelectAtStationSeen ==
    LiveStep /\ Docked /\ Act \in {12, 13, 28, 30, 31} /\ Out.invalid_action = 1

\* The number of occupied neighbor slots of node n in world s.
Degree(s, n) == Cardinality({t \in Slots : s.neighbors[n][t] >= 0})

\* The graph of world s is well formed.
WellFormedGraph(s) ==
    /\ \A u \in Nodes, t \in Slots :
          s.neighbors[u][t] >= 0 =>
             /\ s.neighbors[u][t] \in Nodes
             /\ s.neighbors[u][t] # u
             /\ \A t2 \in Slots \ {t} : s.neighbors[u][t2] # s.neighbors[u][t]
             /\ \E back \in Slots :
                   /\ s.neighbors[s.neighbors[u][t]][back] = u
                   /\ s.edge_travel_time[s.neighbors[u][t]][back] = s.edge_travel_time[u][t]
                   /\ s.edge_fuel_cost[s.neighbors[u][t]][back] = s.edge_fuel_cost[u][t]
                   /\ s.edge_threat_true[s.neighbors[u][t]][back] = s.edge_threat_true[u][t]
    /\ \A u \in Nodes, t \in Slots : s.neighbors[u][t] >= 0 <=> t < Degree(s, u)
    /\ \A u \in Nodes : Degree(s, u) <= MaxNeighbors

\* C39: in every generated world the neighbor relation is symmetric with the
\* same travel time, fuel cost and true threat in both directions, no node is
\* its own neighbor or lists a neighbor twice, the occupied slots of a node
\* are a prefix of its slots, and no step changes the graph or the true
\* attributes of its edges.
GraphWellFormed ==
    /\ WellFormedGraph(states[1][1])
    /\ LastStep =>
          /\ Post.neighbors = Pre.neighbors
          /\ Post.edge_travel_time = Pre.edge_travel_time
          /\ Post.edge_fuel_cost = Pre.edge_fuel_cost
          /\ Post.edge_threat_true = Pre.edge_threat_true
          /\ Post.node_count = Pre.node_count

\* After a travel, a world with a node whose slots are all taken and a node
\* with a free slot.
GraphWellFormedSeen ==
    /\ LiveStep /\ Post.current_node # Pre.current_node
    /\ \E u, v \in Nodes :
          /\ Degree(Post, u) = MaxNeighbors
          /\ v < Post.node_count /\ Degree(Post, v) < MaxNeighbors /\ Degree(Post, v) > 0

\* The actions without a precondition.
AlwaysValid == {6, 7, 8, 11, 32, 33, 68} \cup (36 .. 41)

\* C40: on a live instance hold (6), emergency burn (7), wide scan (8), threat
\* listen (11), refine (32), cooldown (33), jettison (36..41) and voluntary
\* end (68) are never flagged invalid, whatever the node, fuel, cargo or
\* selection; and a sell of a commodity the ship holds none of, at the
\* station, is valid and the dispatch changes nothing.
AlwaysValidActions ==
    /\ (LiveStep /\ Act \in AlwaysValid) => Out.invalid_action = 0
    /\ (LiveStep /\ Docked /\ Act \in 43 .. 60 /\ Pre.cargo[SoldCommodity] = 0) =>
          /\ Out.invalid_action = 0
          /\ AfterDispatch = Pre
          /\ Post.credits = Pre.credits
          /\ Post.cargo = Pre.cargo

\* An emergency burn was made with less fuel than it costs.
AlwaysValidActionsSeen ==
    LiveStep /\ Act = 7 /\ Pre.fuel < 1800 /\ Out.invalid_action = 0

\* A refine or a jettison with an empty hold, a wide scan at the station, and
\* a sell of nothing at the station.
EmptyHoldActionSeen ==
    /\ LiveStep /\ Act \in {32, 36} /\ Out.invalid_action = 0
    /\ \A c \in Commodities : Pre.cargo[c] = 0

ScanAtStationSeen == LiveStep /\ Docked /\ Act = 8 /\ Out.invalid_action = 0

SellNothingSeen ==
    LiveStep /\ Docked /\ Act \in 43 .. 60 /\ Pre.cargo[SoldCommodity] = 0 /\ Out.invalid_action = 0

====
